---- MODULE Spec2Model ----
(***************************************************************************)
(* A model of showyourwork's Zenodo cache (src/showyourwork/zenodo.py).    *)
(*                                                                         *)
(* Seven specifications share the module:                                  *)
(*   Spec        the cache protocol: create, upload_file, download_file,   *)
(*               publish and delete against one concept of the service;    *)
(*   SpecLedger  the notes field: json.dumps(rule_hashes, indent=4) and    *)
(*               json.loads(notes), on texts of characters;                *)
(*   SpecTar     the extraction of a downloaded tarball: safe_extract and  *)
(*               is_within_directory, on paths of characters.              *)
(*   SpecSession the ownership flags of check_if_user_is_owner and the     *)
(*               cache file of get_id_type, for one deposit id;            *)
(*   SpecDeposit the operations that write to the deposit: create,         *)
(*               upload_file, publish, delete and copy_draft;              *)
(*   SpecRace    two processes in upload_file for the same rule and the    *)
(*               same draft, their requests interleaved;                   *)
(*   SpecDry     download_file with and without dry_run and tarball,       *)
(*               against deposits the owner creates, fills and publishes.  *)
(*                                                                         *)
(* A string of the program is a sequence of one-character strings.         *)
(***************************************************************************)
EXTENDS Integers, Sequences, FiniteSets, TLC

VARIABLES
    versions,   \* the service: the versions of the concept, oldest first
    pc,         \* the client: the step of the running call, or "idle"
    call,       \* the client: the running (or last finished) call
    prev,       \* the client: the upload_file call right before this download,
                \* kept when it was for the same rule and artifact
    faults,     \* the environment: the failures it has caused so far
    json,       \* SpecLedger: the ledger, its notes text and the parse
    tar,        \* SpecTar: the archive under extraction
    session,    \* SpecSession: the session flags, the id type cache file
                \* and the last call on them
    race        \* SpecRace: the draft two processes upload to, and the
                \* step of each

vars == <<versions, pc, call, prev, faults, json, tar, session, race>>

\* Python's None, told apart from every string of characters.
None == <<"None">>

RECURSIVE SeqsUpTo(_, _)
\* All sequences over S of length at most n.
SeqsUpTo(S, n) ==
    IF n = 0 THEN {<<>>}
    ELSE LET shorter == SeqsUpTo(S, n - 1)
         IN  shorter \cup {Append(s, x) : s \in shorter, x \in S}

(***************************************************************************)
(* The hash ledger and its wire format.                                    *)
(* A dict is a sequence of <<key, value>> pairs with distinct keys, in      *)
(* insertion order, as Python keeps it.                                    *)
(***************************************************************************)

DictKeys(d) == {d[i][1] : i \in 1..Len(d)}

\* rule_hashes.get(rule_name, None)
DictGet(d, k) ==
    IF k \in DictKeys(d)
    THEN LET i == CHOOSE j \in 1..Len(d) : d[j][1] = k IN d[i][2]
    ELSE None

DictSetAlone(d, k, v) == <<<<k, v>>>>

DictSetDefault(d, k, v) ==
    IF k \in DictKeys(d) THEN d ELSE Append(d, <<k, v>>)

\* rule_hashes[rule_name] = file.name : replace in place, else append.
DictSet(d, k, v) ==
    IF k \in DictKeys(d)
    THEN [i \in 1..Len(d) |-> IF d[i][1] = k THEN <<k, v>> ELSE d[i]]
    ELSE Append(d, <<k, v>>)

\* Python's == on dicts: the same keys with the same values, in any order.
DictEq(d, e) == {d[i] : i \in 1..Len(d)} = {e[i] : i \in 1..Len(e)}

EscapeCharNoBackslash(c) ==
    IF c = "\"" THEN <<"\\", "\"">>
    ELSE IF c = "\n" THEN <<"\\", "n">>
    ELSE <<c>>

\* json.dumps escapes the quote, the backslash and the newline.
EscapeChar(c) ==
    IF c = "\"" THEN <<"\\", "\"">>
    ELSE IF c = "\\" THEN <<"\\", "\\">>
    ELSE IF c = "\n" THEN <<"\\", "n">>
    ELSE <<c>>

RECURSIVE EncodeString(_)
EncodeString(s) ==
    IF s = <<>> THEN <<>> ELSE EscapeChar(Head(s)) \o EncodeString(Tail(s))

Quoted(s) == <<"\"">> \o EncodeString(s) \o <<"\"">>

\* indent=4: every member on its own line, four spaces in.
Indent == <<"\n", " ", " ", " ", " ">>

RECURSIVE DumpItems(_)
DumpItems(d) ==
    IF d = <<>> THEN <<>>
    ELSE Indent \o Quoted(d[1][1]) \o <<":", " ">> \o Quoted(d[1][2])
         \o (IF Len(d) > 1 THEN <<",">> ELSE <<>>)
         \o DumpItems(Tail(d))

\* json.dumps(rule_hashes, indent=4)
Dumps(d) ==
    IF d = <<>> THEN <<"{", "}">>
    ELSE <<"{">> \o DumpItems(d) \o <<"\n", "}">>

IsWs(c) == c \in {" ", "\n", "\t", "\r"}

RECURSIVE SkipWs(_, _)
SkipWs(t, i) == IF i <= Len(t) /\ IsWs(t[i]) THEN SkipWs(t, i + 1) ELSE i

ScanFail == [ok |-> FALSE, val |-> <<>>, next |-> 0]

RECURSIVE ScanString(_, _, _)
\* The JSON string that starts after the opening quote at i - 1.
ScanString(t, i, acc) ==
    IF i > Len(t) THEN ScanFail
    ELSE IF t[i] = "\"" THEN [ok |-> TRUE, val |-> acc, next |-> i + 1]
    ELSE IF t[i] = "\\"
    THEN IF i + 1 > Len(t) THEN ScanFail
         ELSE IF t[i + 1] \in {"\"", "\\", "/"}
              THEN ScanString(t, i + 2, Append(acc, t[i + 1]))
         ELSE IF t[i + 1] = "n"
              THEN ScanString(t, i + 2, Append(acc, "\n"))
         ELSE ScanFail
    ELSE IF t[i] \in {"\n", "\t", "\r"} THEN ScanFail
    ELSE ScanString(t, i + 1, Append(acc, t[i]))

RECURSIVE ScanMembers(_, _, _)
\* The members of a JSON object, i at the opening quote of the next key.
ScanMembers(t, i, acc) ==
    IF i > Len(t) \/ t[i] # "\"" THEN ScanFail
    ELSE
    LET key == ScanString(t, i + 1, <<>>)
        c   == SkipWs(t, key.next)
        v   == SkipWs(t, c + 1)
        val == ScanString(t, v + 1, <<>>)
        e   == SkipWs(t, val.next)
    IN  IF ~key.ok \/ c > Len(t) \/ t[c] # ":" THEN ScanFail
        ELSE IF v > Len(t) \/ t[v] # "\"" \/ ~val.ok THEN ScanFail
        ELSE IF e > Len(t) THEN ScanFail
        ELSE IF t[e] = "}"
             THEN [ok |-> TRUE, val |-> DictSet(acc, key.val, val.val),
                   next |-> e + 1]
        ELSE IF t[e] = ","
             THEN ScanMembers(t, SkipWs(t, e + 1),
                              DictSet(acc, key.val, val.val))
        ELSE ScanFail

\* json.loads(notes): the dict of a text that holds an object of strings;
\* ok is FALSE where json.loads raises JSONDecodeError, and for a text that
\* holds a lone string, which is no ledger.
Loads(t) ==
    LET b == SkipWs(t, 1)
        f == SkipWs(t, b + 1)
        obj == IF b > Len(t) \/ t[b] # "{" THEN ScanFail
               ELSE IF f <= Len(t) /\ t[f] = "}"
                    THEN [ok |-> TRUE, val |-> <<>>, next |-> f + 1]
               ELSE ScanMembers(t, f, <<>>)
    IN  IF obj.ok /\ SkipWs(t, obj.next) > Len(t)
        THEN [ok |-> TRUE, val |-> obj.val]
        ELSE [ok |-> FALSE, val |-> <<>>]

(***************************************************************************)
(* SpecLedger: a ledger is serialised into the notes field and read back.  *)
(***************************************************************************)

MaxEntries == 2

\* The rule names and identifiers of the ledgers: plain, empty, and with
\* the characters that json.dumps escapes.
LedgerStrings ==
    {<<>>, <<"n">>, <<"\"">>, <<"\\">>, <<"\n">>, <<"\\", "n">>,
     <<"\\", "\"">>}

\* The ledgers: at most MaxEntries pairs of strings, keys distinct.
Ledgers ==
    {d \in SeqsUpTo(LedgerStrings \X LedgerStrings, MaxEntries) :
        \A i, j \in 1..Len(d) : i # j => d[i][1] # d[j][1]}

JsonIdle == [pc |-> "off", rule_hashes |-> <<>>, notes |-> <<>>,
             loaded |-> [ok |-> FALSE, val |-> <<>>]]

\* upload_file_to_draft: metadata["notes"] = json.dumps(rule_hashes, indent=4)
WriteNotes ==
    /\ json.pc = "dump"
    /\ json' = [json EXCEPT !.pc = "load", !.notes = Dumps(json.rule_hashes)]
    /\ UNCHANGED <<versions, pc, call, prev, faults, tar, session, race>>

\* the upload and download paths: rule_hashes = json.loads(notes)
ReadNotes ==
    /\ json.pc = "load"
    /\ json' = [json EXCEPT !.pc = "done", !.loaded = Loads(json.notes)]
    /\ UNCHANGED <<versions, pc, call, prev, faults, tar, session, race>>

(***************************************************************************)
(* Paths (posixpath) and the extraction guard.                             *)
(***************************************************************************)

\* os.getcwd()
Cwd == <<"/">>

RECURSIVE SplitAcc(_, _, _)
SplitAcc(p, cur, acc) ==
    IF p = <<>> THEN Append(acc, cur)
    ELSE IF Head(p) = "/" THEN SplitAcc(Tail(p), <<>>, Append(acc, cur))
    ELSE SplitAcc(Tail(p), Append(cur, Head(p)), acc)

\* path.split("/")
Split(p) == SplitAcc(p, <<>>, <<>>)

RECURSIVE JoinSlash(_)
\* "/".join(comps)
JoinSlash(comps) ==
    IF comps = <<>> THEN <<>>
    ELSE IF Len(comps) = 1 THEN comps[1]
    ELSE comps[1] \o <<"/">> \o JoinSlash(Tail(comps))

StartsWith(p, q) == Len(p) >= Len(q) /\ SubSeq(p, 1, Len(q)) = q

\* os.path.join(path, name)
PathJoin(path, name) ==
    IF StartsWith(name, <<"/">>) THEN name
    ELSE IF path = <<>> \/ path[Len(path)] = "/" THEN path \o name
    ELSE path \o <<"/">> \o name

RECURSIVE NormComps(_, _, _)
\* the loop of posixpath.normpath over the components
NormComps(comps, new_comps, initial_slashes) ==
    IF comps = <<>> THEN new_comps
    ELSE LET comp == Head(comps)
             n == Len(new_comps)
         IN  IF comp = <<>> \/ comp = <<".">>
             THEN NormComps(Tail(comps), new_comps, initial_slashes)
             ELSE IF \/ comp # <<".", ".">>
                     \/ (initial_slashes = 0 /\ n = 0)
                     \/ (n > 0 /\ new_comps[n] = <<".", ".">>)
             THEN NormComps(Tail(comps), Append(new_comps, comp),
                            initial_slashes)
             ELSE IF n > 0
             THEN NormComps(Tail(comps), SubSeq(new_comps, 1, n - 1),
                            initial_slashes)
             ELSE NormComps(Tail(comps), new_comps, initial_slashes)

\* os.path.normpath(path)
NormPath(path) ==
    IF path = <<>> THEN <<".">>
    ELSE
    LET initial_slashes ==
            IF ~StartsWith(path, <<"/">>) THEN 0
            ELSE IF StartsWith(path, <<"/", "/">>)
                    /\ ~StartsWith(path, <<"/", "/", "/">>) THEN 2
            ELSE 1
        body == JoinSlash(NormComps(Split(path), <<>>, initial_slashes))
        out == [i \in 1..initial_slashes |-> "/"] \o body
    IN  IF out = <<>> THEN <<".">> ELSE out

\* os.path.abspath(path)
AbsPath(path) ==
    IF StartsWith(path, <<"/">>) THEN NormPath(path)
    ELSE NormPath(PathJoin(Cwd, path))

RECURSIVE CommonPrefix(_, _)
\* os.path.commonprefix([a, b]): the longest common prefix, by characters
CommonPrefix(a, b) ==
    IF a = <<>> \/ b = <<>> \/ Head(a) # Head(b) THEN <<>>
    ELSE <<Head(a)>> \o CommonPrefix(Tail(a), Tail(b))

\* is_within_directory(directory, target)
is_within_directory(directory, target) ==
    LET abs_directory == AbsPath(directory)
        abs_target == AbsPath(target)
        prefix == CommonPrefix(abs_directory, abs_target)
    IN  prefix = abs_directory

\* The components of an absolute, normalised path, the root first.
PathComps(p) == IF p = <<"/">> THEN <<<<>>>> ELSE Split(p)

\* target is directory itself or lies below it, component by component.
IsBelow(directory, target) ==
    LET d == PathComps(AbsPath(directory))
        t == PathComps(AbsPath(target))
    IN  Len(t) >= Len(d) /\ SubSeq(t, 1, Len(d)) = d

(***************************************************************************)
(* SpecTar: safe_extract(tb, file) on a downloaded archive.                *)
(***************************************************************************)

MaxComps == 2
MaxMembers == 2

NameComps == {<<>>, <<".">>, <<".", ".">>, <<"a">>, <<"a", "a">>}

\* The member names: up to MaxComps components joined by "/".
MemberNames ==
    {JoinSlash(cs) : cs \in SeqsUpTo(NameComps, MaxComps) \ {<<>>}} \ {<<>>}

\* The archives: one to MaxMembers members.
Archives == SeqsUpTo(MemberNames, MaxMembers) \ {<<>>}

\* The extraction roots (the local target path), absolute or relative.
Roots == {<<"/", "a">>, <<"a">>}

TarIdle == [pc |-> "off", path |-> <<>>, members |-> <<>>, idx |-> 0,
            written |-> {}]

\* safe_extract: the loop over tar.getmembers() that guards every member
SafeExtractCheck ==
    /\ tar.pc = "check"
    /\ LET bad == {i \in 1..Len(tar.members) :
                     ~is_within_directory(
                         tar.path, PathJoin(tar.path, tar.members[i]))}
       IN  tar' = [tar EXCEPT
                     !.pc = IF bad # {} THEN "PathTraversal" ELSE "extract",
                     !.idx = 1]
    /\ UNCHANGED <<versions, pc, call, prev, faults, json, session, race>>

\* tar.extractall(path, members, numeric_owner): one member is written at
\* os.path.join(path, member.name)
ExtractMember ==
    /\ tar.pc = "extract"
    /\ tar.idx <= Len(tar.members)
    /\ tar' = [tar EXCEPT
                 !.written = @ \cup
                     {AbsPath(PathJoin(tar.path, tar.members[tar.idx]))},
                 !.idx = @ + 1,
                 !.pc = IF tar.idx = Len(tar.members) THEN "done" ELSE @]
    /\ UNCHANGED <<versions, pc, call, prev, faults, json, session, race>>

(***************************************************************************)
(* SpecSession: the ownership flags and the id type cache of one deposit   *)
(* id.  session.flags is the set of flag files of the id in                *)
(* paths.user().flags, session.id_type the line in id_type.txt, "absent"   *)
(* when there is no such file.  The other fields describe the last call:   *)
(* what it found when it started, the reply to its request, how many       *)
(* requests it made, and what it returned ("raise": an exception left it). *)
(***************************************************************************)

MaxCalls == 3

\* The replies to the deposit search of check_if_user_is_owner: a list with
\* the deposit, a good status without such a list, a status above 204, a
\* good status with a body that r.json() cannot decode, and requests.get
\* raising.
OwnerReplies == {"owned", "empty", "error", "undecodable", "raise"}

\* The replies to GET /api/records/{deposit_id} in get_id_type: a public
\* record whose conceptrecid is the id, one whose id is the id, one with
\* neither, a status above 204, an undecodable body, requests.get raising.
IdReplies == {"concept", "version", "neither", "error", "undecodable", "raise"}

SessionIdle ==
    [flags |-> {}, id_type |-> "absent", op |-> "none", token |-> FALSE,
     start_flags |-> {}, start_id_type |-> "absent", reply |-> "none",
     requests |-> 0, result |-> "none", user_is_owner |-> FALSE, calls |-> 0]

\* check_if_user_is_owner when no flag answers: the request (with a token)
\* and the flag it leaves.
OwnerProbe(flags, token, reply) ==
    IF token /\ reply \in {"raise", "undecodable"}
    THEN [flags |-> flags, ret |-> "raise", requests |-> 1]
    ELSE IF token /\ reply = "owned"
    THEN [flags |-> flags \cup {"AUTH_VALID"}, ret |-> "True", requests |-> 1]
    ELSE [flags |-> flags \cup {"AUTH_INVALID"}, ret |-> "False",
          requests |-> IF token THEN 1 ELSE 0]

check_if_user_is_ownerForgetsValid(flags, token, reply) ==
    IF "AUTH_INVALID" \in flags
    THEN [flags |-> flags, ret |-> "False", requests |-> 0]
    ELSE OwnerProbe(flags, token, reply)

check_if_user_is_ownerForgetsInvalid(flags, token, reply) ==
    IF "AUTH_VALID" \in flags
    THEN [flags |-> flags, ret |-> "True", requests |-> 0]
    ELSE OwnerProbe(flags, token, reply)

\* check_if_user_is_owner: the flags first, then the probe.
check_if_user_is_owner(flags, token, reply) ==
    IF "AUTH_VALID" \in flags
    THEN [flags |-> flags, ret |-> "True", requests |-> 0]
    ELSE IF "AUTH_INVALID" \in flags
    THEN [flags |-> flags, ret |-> "False", requests |-> 0]
    ELSE OwnerProbe(flags, token, reply)

\* What a call records of itself.
SessionCall(op, token, reply, requests, result) ==
    [session EXCEPT !.op = op, !.token = token,
                    !.start_flags = session.flags,
                    !.start_id_type = session.id_type,
                    !.reply = IF requests = 0 THEN "none" ELSE reply,
                    !.requests = requests, !.result = result,
                    !.calls = @ + 1]

\* A direct call of check_if_user_is_owner on an instance of the deposit.
CheckOwner(token, reply) ==
    /\ session.calls < MaxCalls
    /\ LET r == check_if_user_is_owner(session.flags, token, reply)
       IN  session' = [SessionCall("check_if_user_is_owner", token, reply,
                                   r.requests, r.ret)
                         EXCEPT !.flags = r.flags]
    /\ UNCHANGED <<versions, pc, call, prev, faults, json, tar, race>>

\* Zenodo(doi): __init__ calls check_if_user_is_owner and takes any
\* exception of it as "not the owner".
ZenodoInit(token, reply) ==
    /\ session.calls < MaxCalls
    /\ LET r == check_if_user_is_owner(session.flags, token, reply)
       IN  session' = [SessionCall("__init__", token, reply, r.requests,
                                   "constructed")
                         EXCEPT !.flags = r.flags,
                                !.user_is_owner = (r.ret = "True")]
    /\ UNCHANGED <<versions, pc, call, prev, faults, json, tar, race>>

\* The preprocessing step of a build deletes the flags: a new session.
ClearFlags ==
    /\ session.calls < MaxCalls
    /\ session.flags # {}
    /\ session' = [SessionCall("clear", FALSE, "none", 0, "none")
                     EXCEPT !.flags = {}]
    /\ UNCHANGED <<versions, pc, call, prev, faults, json, tar, race>>

\* get_id_type as a function of the cache file and the reply: the cache
\* file afterwards, the value returned and the number of requests.
IdType(cached, reply) ==
    IF cached # "absent"
    THEN [id_type |-> cached, ret |-> cached, requests |-> 0]
    ELSE IF reply \in {"raise", "undecodable", "error"}
    THEN [id_type |-> cached, ret |-> "unknown", requests |-> 1]
    ELSE LET id_type == IF reply = "concept" THEN "concept"
                        ELSE IF reply = "version" THEN "version"
                        ELSE "unknown"
         IN  [id_type |-> id_type, ret |-> id_type, requests |-> 1]

get_id_type(reply) ==
    /\ session.calls < MaxCalls
    /\ LET r == IdType(session.id_type, reply)
       IN  session' = [SessionCall("get_id_type", FALSE, reply, r.requests,
                                   r.ret)
                         EXCEPT !.id_type = r.id_type]
    /\ UNCHANGED <<versions, pc, call, prev, faults, json, tar, race>>

(***************************************************************************)
(* The service: one concept and its versions.                              *)
(* A version is [submitted, notes, files]; its id is its place in          *)
(* versions.  notes is the text of the metadata's notes field, or None     *)
(* when the metadata has no such field.  files is the listing of the       *)
(* version's bucket, a sequence of [filename, content]; the content of an  *)
(* artifact is named by the artifact's identifier.                         *)
(***************************************************************************)

MaxVersions == 2

\* The failures of the environment (error replies of the service, failed
\* transfers) in one behaviour.
MaxFaults == 1

\* The rule names and the artifact identifiers (file.name) of the calls.
Rules == {<<"r">>, <<"s">>}
Hashes == {<<"x">>, <<"y">>}

\* The id of the unsubmitted version, 0 when there is none.
DraftId(vs) ==
    IF \E i \in 1..Len(vs) : ~vs[i].submitted
    THEN CHOOSE i \in 1..Len(vs) : ~vs[i].submitted
    ELSE 0

\* GET /api/deposit/depositions?q=conceptrecid:..&all_versions=1 : data[0],
\* the most recent version, with its links.
FirstListed(vs) ==
    [id |-> Len(vs), submitted |-> vs[Len(vs)].submitted,
     latest_draft |-> DraftId(vs)]

NoListing == [id |-> 0, submitted |-> FALSE, latest_draft |-> 0]

\* What data[0] of a listing can be: the links of an unsubmitted version
\* come with or without latest_draft (the code provides for both).
Listings(vs) ==
    IF vs = <<>> THEN {NoListing}
    ELSE {FirstListed(vs)} \cup
         {[FirstListed(vs) EXCEPT !.latest_draft = 0] :
             b \in {b \in {TRUE} : ~vs[Len(vs)].submitted}}

\* GET /api/records?q=conceptdoi:..&all_versions=1 : the hits, the published
\* versions from the oldest to the most recent.
RecordHits(vs) ==
    SelectSeq([i \in 1..Len(vs) |-> i], LAMBDA i : vs[i].submitted)

\* metadata.get("notes", "{}")
MetadataNotes(v) == IF v.notes = None THEN <<"{", "}">> ELSE v.notes

FileNames(files) == {files[i].filename : i \in 1..Len(files)}

\* DELETE {files_url}/{file_id}
RemoveFile(files, name) == SelectSeq(files, LAMBDA e : e.filename # name)

\* PUT {bucket_url}/{rule_name} : a key of the bucket holds one file.
PutFile(files, name, content) ==
    IF name \in FileNames(files)
    THEN [i \in 1..Len(files) |->
            IF files[i].filename = name
            THEN [filename |-> name, content |-> content] ELSE files[i]]
    ELSE Append(files, [filename |-> name, content |-> content])

ReverseNone(seq) == seq

\* records[::-1]
Reverse(seq) == [i \in 1..Len(seq) |-> seq[Len(seq) + 1 - i]]

(***************************************************************************)
(* The client: one call at a time.                                         *)
(* call.written is the content the call wrote at the local target path,    *)
(* None when it wrote nothing.                                             *)
(* call.trace lists the requests and transfers of the call in order, each  *)
(* as [req, id, out]: the request, the version it addresses (0 for the     *)
(* concept) and how it ended.  call.result is "running", "return" (the     *)
(* call returned normally), "warned" (upload_file returned after its       *)
(* warning) or the exception that left the call.                           *)
(***************************************************************************)

\* The replies and the ends of a transfer that are failures of the
\* environment.
Failures == {"error", "empty", "undecodable", "nonzero", "raise"}

Cost(out) == IF out \in Failures THEN 1 ELSE 0

\* The environment causes n more failures.
Env(n) == /\ faults + n <= MaxFaults
          /\ faults' = faults + n

Ev(req, id, out) == [req |-> req, id |-> id, out |-> out]

NoDraft == [id |-> 0, notes |-> <<>>]

\* The folder copy_draft downloads a draft to: .metadata.json (of which the
\* notes and the description are kept here) and the files.
NoCache == [notes |-> None, description |-> None, files |-> <<>>]

\* No download_file call came right before this one.
NoDownload == [result |-> "none", listed |-> NoListing, trace |-> <<>>]

CallIdle ==
    [op |-> "none", rule_name |-> <<>>, file |-> <<>>, access_token |-> FALSE,
     data_id |-> 0, draft_url |-> 0, draft |-> NoDraft, records |-> <<>>, scanned |-> 0,
     written |-> None, cache_folder |-> NoCache, data |-> <<>>,
     listed |-> NoListing,
     tarball |-> FALSE, dry_run |-> FALSE, extracted |-> FALSE,
     before |-> NoDownload,
     trace |-> <<>>, result |-> "return"]

NewCall(op, rule_name, file, token) ==
    [CallIdle EXCEPT !.op = op, !.rule_name = rule_name, !.file = file,
                     !.access_token = token, !.result = "running"]

NoUpload == [rule_name |-> <<>>, file |-> <<>>]

\* What is kept of a call once the next one starts: the rule and the
\* artifact of an upload_file that returned normally, without a warning.
Summary(c) ==
    IF c.op = "upload" /\ c.result = "return"
    THEN [rule_name |-> c.rule_name, file |-> c.file]
    ELSE NoUpload

Finish(result) == /\ pc' = "idle"
                  /\ call' = [call EXCEPT !.result = result]

\* The call ends with this result, after an event that is added to its trace.
FinishWith(ev, result) ==
    /\ pc' = "idle"
    /\ call' = [call EXCEPT !.trace = Append(@, ev), !.result = result]

AfterNotesTakesEmpty(ok) == "running"

\* What follows json.loads(notes) in upload_file_to_draft,
\* download_file_from_draft and download_file_from_record: a notes field
\* that cannot be decoded raises InvalidZenodoNotesField.
AfterNotes(ok) == IF ok THEN "running" ELSE "InvalidZenodoNotesField"

RECURSIVE ScanDraftStale(_, _, _, _, _)
ScanDraftStale(data, rule_hashes, rule_name, fname, i) ==
    IF i > Len(data) THEN [found |-> 0, inspected |-> Len(data)]
    ELSE IF data[i].filename = rule_name
    THEN [found |-> i, inspected |-> i]
    ELSE ScanDraftStale(data, rule_hashes, rule_name, fname, i + 1)

RECURSIVE ScanDraft(_, _, _, _, _)
\* download_file_from_draft: the loop over the draft's files.  found is the
\* place of the entry to download (0: none), inspected the number of
\* entries the loop looked at.
ScanDraft(data, rule_hashes, rule_name, fname, i) ==
    IF i > Len(data) THEN [found |-> 0, inspected |-> Len(data)]
    ELSE IF /\ data[i].filename = rule_name
            /\ DictGet(rule_hashes, rule_name) = fname
    THEN [found |-> i, inspected |-> i]
    ELSE IF data[i].filename = rule_name
    THEN [found |-> 0, inspected |-> i]
    ELSE ScanDraft(data, rule_hashes, rule_name, fname, i + 1)

RECURSIVE ScanRecord(_, _, _, _, _)
\* download_file_from_record: the loop over record["files"].
ScanRecord(files, rule_hashes, rule_name, fname, i) ==
    IF i > Len(files) THEN [found |-> 0, inspected |-> Len(files)]
    ELSE IF /\ files[i].filename = rule_name
            /\ DictGet(rule_hashes, rule_name) = fname
    THEN [found |-> i, inspected |-> i]
    ELSE IF files[i].filename = rule_name
    THEN [found |-> 0, inspected |-> i]
    ELSE ScanRecord(files, rule_hashes, rule_name, fname, i + 1)

\* The ways a curl transfer ends: exit 0, a non-zero exit, or
\* subprocess.run raising.
TransferOutcomes == {"ok", "nonzero", "raise"}

TransfersAlways(dry_run) == TransferOutcomes

\* `if not dry_run:` around the curl transfer and the extraction of the
\* tarball: with dry_run neither is run.
Transfers(dry_run) == IF dry_run THEN {"skipped"} ELSE TransferOutcomes

\* The transfer as an event of the call, none when it was skipped.
TransferEv(req, id, t) == IF t = "skipped" THEN <<>> ELSE <<Ev(req, id, t)>>

(***************************************************************************)
(* download_file                                                           *)
(***************************************************************************)

\* download_file is called: a Zenodo object with or without a token looks
\* for the artifact `file` of rule `rule_name`.
DownloadBegin(rule_name, file, token) ==
    /\ pc = "idle"
    /\ pc' = "dl_list"
    /\ prev' = IF Summary(call) = [rule_name |-> rule_name, file |-> file]
               THEN Summary(call) ELSE NoUpload
    /\ call' = NewCall("download", rule_name, file, token)
    /\ UNCHANGED <<versions, faults, json, tar, session, race>>

\* What is kept of a download_file call that has ended.
Outcome(c) == [result |-> c.result, listed |-> c.listed, trace |-> c.trace]

\* download_file(file, rule_name, tarball, dry_run) is called.  When the
\* call before it was the same call without dry_run, the outcome of that
\* call is kept for comparison.
DownloadBeginDry(rule_name, file, token, tarball, dry_run) ==
    /\ pc = "idle"
    /\ pc' = "dl_list"
    /\ prev' = NoUpload
    /\ call' = [NewCall("download", rule_name, file, token) EXCEPT
                  !.tarball = tarball,
                  !.dry_run = dry_run,
                  !.before =
                      IF /\ call.op = "download"
                         /\ call.rule_name = rule_name
                         /\ call.file = file
                         /\ call.access_token = token
                         /\ call.tarball = tarball
                         /\ ~call.dry_run
                         /\ dry_run
                      THEN Outcome(call) ELSE NoDownload]
    /\ UNCHANGED <<versions, faults, json, tar, session, race>>

\* A download_file that calls download_file_from_draft whether or not the
\* listing gave a draft.
DownloadAfterListNeedsDraft(draft_url) ==
    IF draft_url # 0 THEN "dl_draft" ELSE "dl_from_draft"

\* A download_file that would open a draft when none is linked.
DownloadAfterListOpens(draft_url) ==
    IF draft_url # 0 THEN "dl_draft" ELSE "up_newversion"

\* download_file: where the call goes after the listing: to the draft when
\* the first listed version has a latest_draft link, else to the published
\* records.
DownloadAfterList(draft_url) ==
    IF draft_url # 0 THEN "dl_draft" ELSE "dl_probe"

\* The listing of the concept's depositions and the choice of the draft
\* link.  The service lists depositions for an authenticated owner only.
\* requests.get is in no try: an exception it raises (no connection) leaves
\* download_file.
DownloadList ==
    /\ pc = "dl_list"
    /\ \E out \in {"ok", "empty", "error", "raise"},
          data \in Listings(versions) :
        /\ out = "ok" => (call.access_token /\ versions # <<>>)
        /\ out = "empty" => call.access_token
        /\ out # "ok" => data = CHOOSE d \in Listings(versions) : TRUE
        /\ Env(IF call.access_token \/ out = "raise" THEN Cost(out) ELSE 0)
        /\ IF out = "raise"
           THEN FinishWith(Ev("list", 0, out), "ConnectionError")
           ELSE
           LET draft_url == IF out = "ok" THEN data.latest_draft ELSE 0
           IN  /\ call' = [call EXCEPT
                             !.trace = Append(@, Ev("list", 0, out)),
                             !.listed = IF out = "ok" THEN data ELSE @,
                             !.draft_url = draft_url]
               /\ pc' = DownloadAfterList(draft_url)
    /\ UNCHANGED <<versions, prev, json, tar, session, race>>

\* requests.get(draft_url): the draft, or a failure that is only logged.
DownloadGetDraft ==
    /\ pc = "dl_draft"
    /\ \E out \in {"ok", "error", "raise"} :
        /\ out = "ok" => call.draft_url \in 1..Len(versions)
        /\ Env(Cost(out))
        /\ call' = [call EXCEPT
                      !.trace = Append(@, Ev("get_draft", call.draft_url, out)),
                      !.draft = IF out = "ok"
                                THEN [id |-> call.draft_url,
                                      notes |-> versions[call.draft_url].notes]
                                ELSE NoDraft,
                      !.result = IF out = "raise" THEN "ConnectionError"
                                 ELSE @]
        /\ pc' = IF out = "ok" THEN "dl_from_draft"
                 ELSE IF out = "raise" THEN "idle" ELSE "dl_probe"
    /\ UNCHANGED <<versions, prev, json, tar, session, race>>

AfterDraftMatchFallsThrough(found) == "running"

\* download_file: what follows a download_file_from_draft that returned
\* normally (the else branch of the try: return).
AfterDraftMatch(found) == "return"

\* download_file_from_draft, and the try around it in download_file:
\* FileNotFoundOnZenodo alone is caught, and sends the call on to the
\* published records.
download_file_from_draft ==
    /\ pc = "dl_from_draft"
    /\ LET loaded == Loads(MetadataNotes(call.draft))
           id == call.draft.id
       IN
       IF ~call.access_token
       THEN Finish("MissingZenodoAccessToken") /\ Env(0)
       ELSE IF AfterNotes(loaded.ok) # "running"
       THEN FinishWith(Ev("notes", id, "invalid"), AfterNotes(loaded.ok))
            /\ Env(0)
       ELSE \E out \in {"ok", "error"} :
            /\ out = "ok" => id \in 1..Len(versions)
            /\ IF out = "error"
               THEN /\ call' = [call EXCEPT
                                  !.trace = Append(@, Ev("files", id, out)),
                                  !.result = "ZenodoError"]
                    /\ pc' = "idle"
                    /\ Env(1)
               ELSE
               LET data == versions[id].files
                   scan == ScanDraft(data, loaded.val, call.rule_name,
                                     call.file, 1)
               IN  IF scan.found = 0
                   THEN /\ call' = [call EXCEPT
                                      !.trace = Append(@, Ev("files", id, out)),
                                      !.scanned = scan.inspected]
                        /\ pc' = "dl_probe"
                        /\ Env(0)
                   ELSE \E t \in Transfers(call.dry_run) :
                        /\ Env(Cost(t))
                        /\ call' = [call EXCEPT
                                      !.trace = @ \o <<Ev("files", id, out)>>
                                          \o TransferEv("transfer_draft", id, t),
                                      !.scanned = scan.inspected,
                                      !.extracted = t = "ok" /\ call.tarball,
                                      !.written =
                                          IF t = "ok"
                                          THEN data[scan.found].content
                                          ELSE None,
                                      !.result =
                                          IF t = "raise"
                                          THEN "ZenodoDownloadError"
                                          ELSE AfterDraftMatch(scan.found)]
                        /\ pc' = IF t # "raise"
                                    /\ AfterDraftMatch(scan.found) = "running"
                                 THEN "dl_probe" ELSE "idle"
    /\ UNCHANGED <<versions, prev, json, tar, session, race>>

ProbeResultStrict(out) ==
    IF out = "ok" THEN "running" ELSE "ZenodoError"

ProbeResultLenient(out) ==
    IF out = "ok" THEN "running" ELSE "FileNotFoundOnZenodo"

\* download_file: what the reply to the probe for a published record leads
\* to: on with the search, the cache miss when the message says that the
\* PID is not registered, ZenodoError for any other failure.
ProbeResult(out) ==
    IF out = "ok" THEN "running"
    ELSE IF out = "unregistered" THEN "FileNotFoundOnZenodo"
    ELSE "ZenodoError"

\* requests.get(/api/records/{concept_id}): is there a published record?
DownloadProbe ==
    /\ pc = "dl_probe"
    /\ \E out \in {"ok", "unregistered", "error"} :
        /\ out = "ok" => RecordHits(versions) # <<>>
        /\ out = "unregistered" => RecordHits(versions) = <<>>
        /\ Env(Cost(out))
        /\ call' = [call EXCEPT
                      !.trace = Append(@, Ev("probe", 0, out)),
                      !.result = ProbeResult(out)]
        /\ pc' = IF ProbeResult(out) = "running" THEN "dl_search" ELSE "idle"
    /\ UNCHANGED <<versions, prev, json, tar, session, race>>

\* requests.get(/api/records?q=conceptdoi:..): all the published versions.
\* A body that cannot be decoded counts as no records.
DownloadSearch ==
    /\ pc = "dl_search"
    /\ \E out \in {"ok", "undecodable", "error"} :
        LET records == IF out = "ok" THEN RecordHits(versions) ELSE <<>>
        IN  /\ Env(Cost(out))
            /\ call' = [call EXCEPT
                          !.trace = Append(@, Ev("search", 0, out)),
                          !.records = Reverse(records),
                          !.result = IF out = "error" THEN "ZenodoError"
                                     ELSE IF records = <<>>
                                          THEN "FileNotFoundOnZenodo"
                                     ELSE @]
            /\ pc' = IF out = "error" \/ records = <<>>
                     THEN "idle" ELSE "dl_records"
    /\ UNCHANGED <<versions, prev, json, tar, session, race>>

\* One turn of the loop over records[::-1]: download_file_from_record on
\* the next record, and the try around it.
download_file_from_record ==
    /\ pc = "dl_records"
    /\ LET id == Head(call.records)
           record == versions[id]
           loaded == Loads(MetadataNotes(record))
           scan == ScanRecord(record.files, loaded.val, call.rule_name,
                              call.file, 1)
       IN
       IF AfterNotes(loaded.ok) # "running"
       THEN FinishWith(Ev("notes", id, "invalid"), AfterNotes(loaded.ok))
            /\ Env(0)
       ELSE IF scan.found = 0
       THEN /\ Env(0)
            /\ call' = [call EXCEPT
                          !.trace = Append(@, Ev("record", id, "miss")),
                          !.records = Tail(@),
                          !.result = IF Len(call.records) = 1
                                     THEN "FileNotFoundOnZenodo" ELSE @]
            /\ pc' = IF Len(call.records) = 1 THEN "idle" ELSE "dl_records"
       ELSE \E t \in Transfers(call.dry_run) :
            /\ Env(Cost(t))
            /\ call' = [call EXCEPT
                          !.trace = @ \o <<Ev("record", id, "match")>>
                              \o TransferEv("transfer_record", id, t),
                          !.extracted = t = "ok" /\ call.tarball,
                          !.written = IF t = "ok"
                                      THEN record.files[scan.found].content
                                      ELSE None,
                          !.result = IF t = "raise" THEN "OSError"
                                     ELSE "return"]
            /\ pc' = "idle"
    /\ UNCHANGED <<versions, prev, json, tar, session, race>>

(***************************************************************************)
(* upload_file                                                             *)
(***************************************************************************)

\* A python value is true unless it is None or the empty string.
Truthy(v) == v # None /\ v # <<>>

ResolveDraftUrlOwnLink(data) == data.id

ResolveDraftUrlLinkOnly(data) == data.latest_draft

ResolveDraftUrlAnyOwnLink(data) ==
    IF data.latest_draft # 0 THEN data.latest_draft ELSE data.id

\* upload_file: the draft to write to, from the first listed version: its
\* latest_draft link, else its own link when it is unsubmitted, else none
\* (0), and a new version has to be opened.
ResolveDraftUrl(data) ==
    IF data.latest_draft # 0 THEN data.latest_draft
    ELSE IF ~data.submitted THEN data.id
    ELSE 0

\* upload_file is called (require_access_token guards it).
UploadBegin(rule_name, file, token) ==
    /\ pc = "idle"
    /\ prev' = IF Summary(call) = [rule_name |-> rule_name, file |-> file]
               THEN Summary(call) ELSE NoUpload
    /\ IF token
       THEN /\ call' = NewCall("upload", rule_name, file, token)
            /\ pc' = "up_list"
       ELSE /\ call' = [NewCall("upload", rule_name, file, token)
                          EXCEPT !.result = "MissingZenodoAccessToken"]
            /\ pc' = "idle"
    /\ UNCHANGED <<versions, faults, json, tar, session, race>>

AfterListRaises(out) == IF out = "ok" THEN "running" ELSE "ZenodoError"

\* upload_file: what follows the listing: a status above 204, and a body
\* that is empty or cannot be decoded, end the call with a warning and a
\* plain return.
AfterList(out) == IF out = "ok" THEN "running" ELSE "warned"

\* The listing of the concept's depositions; a failure or an empty listing
\* ends the call with a warning.
UploadList ==
    /\ pc = "up_list"
    /\ \E out \in {"ok", "empty", "error"}, data \in Listings(versions) :
        /\ out = "ok" => versions # <<>>
        /\ out # "ok" => data = CHOOSE d \in Listings(versions) : TRUE
        /\ Env(Cost(out))
        /\ IF AfterList(out) = "running"
           THEN LET draft_url == ResolveDraftUrl(data)
                IN  /\ call' = [call EXCEPT
                                  !.trace = Append(@, Ev("list", 0, out)),
                                  !.listed = data,
                                  !.data_id = data.id,
                                  !.draft_url = draft_url]
                    /\ pc' = IF draft_url # 0 THEN "up_getdraft"
                             ELSE "up_newversion"
           ELSE FinishWith(Ev("list", 0, out), AfterList(out))
    /\ UNCHANGED <<versions, prev, json, tar, session, race>>

\* The service can answer the newversion action on version id.
CanOpen(vs, id) ==
    /\ id \in 1..Len(vs)
    /\ DraftId(vs) # 0 \/ Len(vs) < MaxVersions

\* The newversion action of the service: a draft that starts as a copy of
\* the version; the draft that is already open is kept, and linked again.
NewVersion(vs, id) ==
    IF DraftId(vs) # 0 THEN vs
    ELSE Append(vs, [vs[id] EXCEPT !.submitted = FALSE])

\* POST .../depositions/{id}/actions/newversion: the service opens a draft
\* that starts as a copy of the version, and links it as latest_draft.
UploadNewVersion ==
    /\ pc = "up_newversion"
    /\ \E out \in {"ok", "error"} :
        /\ out = "ok" => CanOpen(versions, call.data_id)
        /\ Env(Cost(out))
        /\ IF out = "ok"
           THEN /\ versions' = NewVersion(versions, call.data_id)
                /\ call' = [call EXCEPT
                              !.trace = Append(@, Ev("newversion",
                                                     call.data_id, out)),
                              !.draft_url =
                                  DraftId(NewVersion(versions, call.data_id))]
                /\ pc' = "up_getdraft"
           ELSE /\ call' = [call EXCEPT
                              !.trace = Append(@, Ev("newversion",
                                                     call.data_id, out)),
                              !.result = "ZenodoError"]
                /\ pc' = "idle"
                /\ UNCHANGED versions
    /\ UNCHANGED <<prev, json, tar, session, race>>

\* parse_request(requests.get(draft_url)): the draft and its metadata.
UploadGetDraft ==
    /\ pc = "up_getdraft"
    /\ \E out \in {"ok", "error"} :
        /\ out = "ok" => call.draft_url \in 1..Len(versions)
        /\ Env(Cost(out))
        /\ call' = [call EXCEPT
                      !.trace = Append(@, Ev("get_draft", call.draft_url, out)),
                      !.draft = IF out = "ok"
                                THEN [id |-> call.draft_url,
                                      notes |-> versions[call.draft_url].notes]
                                ELSE NoDraft,
                      !.result = IF out = "ok" THEN @ ELSE "ZenodoError"]
        /\ pc' = IF out = "ok" THEN "up_delete" ELSE "idle"
    /\ UNCHANGED <<versions, prev, json, tar, session, race>>

UpToDateNever(rule_hash_on_zenodo, name) == FALSE

\* upload_file_to_draft: the ledger entry of the rule is the artifact's
\* identifier, the file is up to date.
UpToDate(rule_hash_on_zenodo, name) == rule_hash_on_zenodo = name

\* upload_file_to_draft, up to the transfer: read the ledger, return when
\* the entry is the artifact's identifier, delete the file of the rule when
\* the ledger has another entry for it.
UploadDelete ==
    /\ pc = "up_delete"
    /\ LET loaded == Loads(MetadataNotes(call.draft))
           id == call.draft.id
           rule_hash_on_zenodo == DictGet(loaded.val, call.rule_name)
       IN
       IF ~call.access_token
       THEN Finish("MissingZenodoAccessToken") /\ UNCHANGED <<versions, faults>>
       ELSE IF AfterNotes(loaded.ok) # "running"
       THEN FinishWith(Ev("notes", id, "invalid"), AfterNotes(loaded.ok))
            /\ UNCHANGED <<versions, faults>>
       ELSE IF UpToDate(rule_hash_on_zenodo, call.file)
       THEN Finish("return") /\ UNCHANGED <<versions, faults>>
       ELSE IF ~Truthy(rule_hash_on_zenodo)
       THEN /\ pc' = "up_transfer"
            /\ UNCHANGED <<call, versions, faults>>
       ELSE \E out \in {"ok", "error"} :
            /\ out = "ok" => id \in 1..Len(versions)
            /\ out = "error" => Env(1)
            /\ IF out = "error"
               THEN /\ call' = [call EXCEPT
                                  !.trace = Append(@, Ev("files", id, out)),
                                  !.result = "ZenodoError"]
                    /\ pc' = "idle"
                    /\ UNCHANGED versions
               ELSE IF call.rule_name \notin FileNames(versions[id].files)
               THEN /\ call' = [call EXCEPT
                                  !.trace = Append(@, Ev("files", id, out))]
                    /\ pc' = "up_transfer"
                    /\ UNCHANGED <<versions, faults>>
               ELSE \E del \in {"ok", "error"} :
                    /\ Env(Cost(del))
                    /\ call' = [call EXCEPT
                                  !.trace = @ \o
                                      <<Ev("files", id, out),
                                        Ev("delete_file", id, del)>>,
                                  !.result = IF del = "ok" THEN @
                                             ELSE "ZenodoError"]
                    /\ pc' = IF del = "ok" THEN "up_transfer" ELSE "idle"
                    /\ versions' =
                         IF del = "ok"
                         THEN [versions EXCEPT ![id].files =
                                 RemoveFile(@, call.rule_name)]
                         ELSE versions
    /\ UNCHANGED <<prev, json, tar, session, race>>

\* upload_file_to_draft: what follows subprocess.run(curl ...) by the way it
\* ended: only an exception of subprocess.run is turned into
\* ZenodoUploadError; the exit status in res is not looked at.
UploadAfterCurl(t) ==
    IF t = "raise" THEN "ZenodoUploadError" ELSE "running"

\* curl --upload-file ... PUT {bucket_url}/{rule_name}
UploadTransfer ==
    /\ pc = "up_transfer"
    /\ \E t \in TransferOutcomes :
        LET id == call.draft.id
        IN  /\ t = "ok" => id \in 1..Len(versions)
            /\ Env(Cost(t))
            /\ versions' =
                 IF t = "ok"
                 THEN [versions EXCEPT ![id].files =
                         PutFile(@, call.rule_name, call.file)]
                 ELSE versions
            /\ call' = [call EXCEPT
                          !.trace = Append(@, Ev("transfer_upload", id, t)),
                          !.result = UploadAfterCurl(t)]
            /\ pc' = IF UploadAfterCurl(t) = "running"
                     THEN "up_metadata" ELSE "idle"
    /\ UNCHANGED <<prev, json, tar, session, race>>

\* upload_file_to_draft: rule_hashes[rule_name] = file.name, and the
\* metadata of the draft, with the new notes, is put back.
UploadMetadata ==
    /\ pc = "up_metadata"
    /\ \E out \in {"ok", "error"} :
        LET id == call.draft.id
            rule_hashes == DictSet(Loads(MetadataNotes(call.draft)).val,
                                   call.rule_name, call.file)
        IN  /\ out = "ok" => id \in 1..Len(versions)
            /\ Env(Cost(out))
            /\ versions' =
                 IF out = "ok"
                 THEN [versions EXCEPT ![id].notes = Dumps(rule_hashes)]
                 ELSE versions
            /\ call' = [call EXCEPT
                          !.trace = Append(@, Ev("put_metadata", id, out)),
                          !.result = IF out = "ok" THEN "return"
                                     ELSE "ZenodoError"]
            /\ pc' = "idle"
    /\ UNCHANGED <<prev, json, tar, session, race>>

(***************************************************************************)
(* copy_draft                                                              *)
(* The deposit of the model takes one of two parts.  In "copy_from" it is  *)
(* the source: _download_latest_draft reads it into the cache folder, and  *)
(* the target is another deposit, which takes the copy without a failure.  *)
(* In "copy_into" it is the target: the source is another deposit, whose   *)
(* draft _download_latest_draft has read into the cache folder in full.    *)
(* Zenodo(target_doi) writes nothing to the service.  The files of the     *)
(* cache folder are taken in the order of the source's listing.            *)
(***************************************************************************)

\* The description _create gives a deposit, as a sequence of characters.
description == <<"s", "h", "o", "w">>

\* The drafts of the other deposit that copy_draft copies into this one:
\* one rule's file and its ledger entry, and a description of their own.
SourceDrafts ==
    {[notes |-> Dumps(<<<<r, h>>>>),
      description |-> <<"e", "d">>,
      files |-> <<[filename |-> r, content |-> h]>>] :
        r \in {<<"r">>}, h \in {<<"x">>}}

\* copy_draft is called (require_access_token guards it).
CopyBegin(part, token, source) ==
    /\ pc = "idle"
    /\ prev' = NoUpload
    /\ IF token
       THEN /\ call' = [NewCall(part, <<>>, <<>>, token)
                          EXCEPT !.cache_folder = source]
            /\ pc' = "cp_list"
       ELSE /\ call' = [NewCall(part, <<>>, <<>>, token)
                          EXCEPT !.result = "MissingZenodoAccessToken"]
            /\ pc' = "idle"
    /\ UNCHANGED <<versions, faults, json, tar, session, race>>

\* The listing of the deposit's versions and the choice of the draft link;
\* every failure of the listing is a ZenodoError.
CopyList ==
    /\ pc = "cp_list"
    /\ \E out \in {"ok", "empty", "error", "undecodable"},
          data \in Listings(versions) :
        /\ out = "ok" => versions # <<>>
        /\ out # "ok" => data = CHOOSE d \in Listings(versions) : TRUE
        /\ Env(Cost(out))
        /\ IF out = "ok"
           THEN LET draft_url == ResolveDraftUrl(data)
                IN  /\ call' = [call EXCEPT
                                  !.trace = Append(@, Ev("list", 0, out)),
                                  !.listed = data,
                                  !.data_id = data.id,
                                  !.draft_url = draft_url]
                    /\ pc' = IF draft_url # 0 THEN "cp_getdraft"
                             ELSE "cp_newversion"
           ELSE FinishWith(Ev("list", 0, out), "ZenodoError")
    /\ UNCHANGED <<versions, prev, json, tar, session, race>>

\* What follows the newversion request in copy_draft and in
\* _download_latest_draft: the status of the reply is not looked at; a body
\* that is not JSON is a ZenodoError, the JSON of an error has no "links".
CopyAfterNewVersion(out) ==
    IF out = "ok" THEN "running"
    ELSE IF out = "undecodable" THEN "ZenodoError"
    ELSE "KeyError"

\* POST .../depositions/{id}/actions/newversion
CopyNewVersion ==
    /\ pc = "cp_newversion"
    /\ \E out \in {"ok", "error", "undecodable"} :
        /\ out = "ok" => CanOpen(versions, call.data_id)
        /\ Env(Cost(out))
        /\ versions' = IF out = "ok" THEN NewVersion(versions, call.data_id)
                       ELSE versions
        /\ call' = [call EXCEPT
                      !.trace = Append(@, Ev("newversion", call.data_id, out)),
                      !.draft_url =
                          IF out = "ok"
                          THEN DraftId(NewVersion(versions, call.data_id))
                          ELSE @,
                      !.result = CopyAfterNewVersion(out)]
        /\ pc' = IF out = "ok" THEN "cp_getdraft" ELSE "idle"
    /\ UNCHANGED <<prev, json, tar, session, race>>

\* requests.get(draft_url): the draft.  _download_latest_draft then empties
\* the cache folder and writes the draft's metadata to .metadata.json.
CopyGetDraft ==
    /\ pc = "cp_getdraft"
    /\ \E out \in {"ok", "error"} :
        /\ out = "ok" => call.draft_url \in 1..Len(versions)
        /\ Env(Cost(out))
        /\ IF out = "ok"
           THEN LET draft == versions[call.draft_url]
                IN  /\ call' = [call EXCEPT
                          !.trace = Append(@, Ev("get_draft", call.draft_url,
                                                 out)),
                          !.draft = [id |-> call.draft_url,
                                     notes |-> draft.notes],
                          !.cache_folder =
                              IF call.op = "copy_from"
                              THEN [notes |-> draft.notes,
                                    description |-> draft.description,
                                    files |-> <<>>]
                              ELSE @]
                    /\ pc' = IF call.op = "copy_from" THEN "cp_files"
                             ELSE "cp_metadata"
           ELSE FinishWith(Ev("get_draft", call.draft_url, out),
                           "ZenodoError")
    /\ UNCHANGED <<versions, prev, json, tar, session, race>>

\* _download_latest_draft: parse_request(requests.get(draft files)), the
\* entries to download.  With none, copy_draft goes on to the target.
CopyFiles ==
    /\ pc = "cp_files"
    /\ \E out \in {"ok", "error"} :
        LET id == call.draft.id
        IN  /\ out = "ok" => id \in 1..Len(versions)
            /\ Env(Cost(out))
            /\ IF out = "ok"
               THEN /\ call' = [call EXCEPT
                                  !.trace = Append(@, Ev("files", id, out)),
                                  !.data = versions[id].files,
                                  !.result = IF versions[id].files = <<>>
                                             THEN "return" ELSE @]
                    /\ pc' = IF versions[id].files = <<>> THEN "idle"
                             ELSE "cp_download"
               ELSE FinishWith(Ev("files", id, out), "ZenodoError")
    /\ UNCHANGED <<versions, prev, json, tar, session, race>>

\* _download_latest_draft: what follows subprocess.run(curl -f ...) by the
\* way it ended; the exit status in res is not looked at.
CopyAfterDownload(t) ==
    IF t = "raise" THEN "ZenodoDownloadError" ELSE "running"

\* One turn of the loop over the entries: curl -f {download} --output
\* {filename}, in the cache folder.  After the last entry copy_draft goes
\* on to the target.
CopyDownload ==
    /\ pc = "cp_download"
    /\ \E t \in TransferOutcomes :
        LET entry == Head(call.data)
            last == Len(call.data) = 1
        IN  /\ Env(Cost(t))
            /\ call' = [call EXCEPT
                          !.trace = Append(@, Ev("copy_download",
                                                 call.draft.id, t)),
                          !.data = Tail(@),
                          !.cache_folder.files =
                              IF t = "ok" THEN Append(@, entry) ELSE @,
                          !.result =
                              IF CopyAfterDownload(t) # "running"
                              THEN CopyAfterDownload(t)
                              ELSE IF last THEN "return" ELSE @]
            /\ pc' = IF CopyAfterDownload(t) # "running" \/ last
                     THEN "idle" ELSE "cp_download"
    /\ UNCHANGED <<versions, prev, json, tar, session, race>>

\* copy_draft: the title, the description and the notes of .metadata.json
\* are put to the target's draft; then the loop over the cache folder.
CopyMetadata ==
    /\ pc = "cp_metadata"
    /\ \E out \in {"ok", "error"} :
        LET id == call.draft.id
            files == call.cache_folder.files
        IN  /\ out = "ok" => id \in 1..Len(versions)
            /\ Env(Cost(out))
            /\ IF out = "ok"
               THEN /\ versions' =
                         [versions EXCEPT
                            ![id].notes = MetadataNotes(call.cache_folder),
                            ![id].description = call.cache_folder.description]
                    /\ call' = [call EXCEPT
                                  !.trace = Append(@, Ev("put_metadata", id,
                                                         out)),
                                  !.data = files,
                                  !.result = IF files = <<>> THEN "return"
                                             ELSE @]
                    /\ pc' = IF files = <<>> THEN "idle" ELSE "cp_upload"
               ELSE /\ FinishWith(Ev("put_metadata", id, out), "ZenodoError")
                    /\ UNCHANGED versions
    /\ UNCHANGED <<prev, json, tar, session, race>>

\* copy_draft: what follows subprocess.run(curl -f --upload-file ...) by the
\* way it ended; the exit status in res is not looked at.
CopyAfterUpload(t) ==
    IF t = "raise" THEN "ZenodoUploadError" ELSE "running"

\* One turn of the loop over cache_folder.glob("*"): curl -f --upload-file
\* {file.name} PUT {bucket_url}/{file.name}
CopyUpload ==
    /\ pc = "cp_upload"
    /\ \E t \in TransferOutcomes :
        LET id == call.draft.id
            file == Head(call.data)
            last == Len(call.data) = 1
        IN  /\ t = "ok" => id \in 1..Len(versions)
            /\ Env(Cost(t))
            /\ versions' =
                 IF t = "ok"
                 THEN [versions EXCEPT ![id].files =
                         PutFile(@, file.filename, file.content)]
                 ELSE versions
            /\ call' = [call EXCEPT
                          !.trace = Append(@, Ev("copy_upload", id, t)),
                          !.data = Tail(@),
                          !.result =
                              IF CopyAfterUpload(t) # "running"
                              THEN CopyAfterUpload(t)
                              ELSE IF last THEN "return" ELSE @]
            /\ pc' = IF CopyAfterUpload(t) # "running" \/ last
                     THEN "idle" ELSE "cp_upload"
    /\ UNCHANGED <<prev, json, tar, session, race>>

(***************************************************************************)
(* The life of the deposit: Zenodo(service), publish, delete               *)
(***************************************************************************)

Ended(op, token, trace, result) ==
    [NewCall(op, <<>>, <<>>, token) EXCEPT !.trace = trace, !.result = result]

\* Zenodo(service) -> _create: POST a new deposition, then PUT its minimal
\* metadata with the empty ledger "{}".
Create(token) ==
    /\ pc = "idle"
    /\ versions = <<>>
    /\ prev' = NoUpload
    /\ \E post \in {"ok", "error"}, put \in {"ok", "error"} :
        /\ post = "ok" => token
        /\ post = "error" => put = "ok"
        /\ Env((IF token THEN Cost(post) ELSE 0) + Cost(put))
        /\ IF post = "error"
           THEN /\ call' = Ended("create", token,
                                 <<Ev("post_deposition", 0, post)>>,
                                 "ZenodoError")
                /\ UNCHANGED versions
           ELSE /\ call' = Ended("create", token,
                                 <<Ev("post_deposition", 0, post),
                                   Ev("put_metadata", 1, put)>>,
                                 IF put = "ok" THEN "return"
                                 ELSE "ZenodoError")
                /\ versions' =
                     <<[submitted |-> FALSE,
                        notes |-> IF put = "ok" THEN <<"{", "}">> ELSE None,
                        description |-> IF put = "ok" THEN description
                                        ELSE None,
                        files |-> <<>>]>>
    /\ UNCHANGED <<pc, json, tar, session, race>>

\* DELETE .../depositions/{id} : the version is gone, the others stay.
RemoveVersion(vs, id) ==
    [i \in 1..(Len(vs) - 1) |-> IF i < id THEN vs[i] ELSE vs[i + 1]]

UnsubmittedFirstListed(out) == IF out = "ok" THEN Len(versions) ELSE 0

\* publish and delete: the first listed version that is not submitted, 0
\* when the listing has none or cannot be read.
Unsubmitted(out) == IF out = "ok" THEN DraftId(versions) ELSE 0

\* publish: POST .../depositions/{version_id}/actions/publish
Publish(token) ==
    /\ pc = "idle"
    /\ prev' = NoUpload
    /\ IF ~token
       THEN /\ call' = Ended("publish", token, <<>>,
                             "MissingZenodoAccessToken")
            /\ UNCHANGED <<versions, faults>>
       ELSE \E out \in {"ok", "error"}, act \in {"ok", "error"} :
            LET version_id == Unsubmitted(out)
            IN  IF version_id = 0
                THEN /\ act = "ok"
                     /\ Env(Cost(out))
                     /\ call' = Ended("publish", token,
                                      <<Ev("list", 0, out)>>,
                                      "ZenodoRecordNotFound")
                     /\ UNCHANGED versions
                ELSE /\ Env(Cost(out) + Cost(act))
                     /\ call' = Ended("publish", token,
                                      <<Ev("list", 0, out),
                                        Ev("publish", version_id, act)>>,
                                      IF act = "ok" THEN "return"
                                      ELSE "ZenodoError")
                     /\ versions' =
                          IF act = "ok"
                          THEN [versions EXCEPT ![version_id].submitted = TRUE]
                          ELSE versions
    /\ UNCHANGED <<pc, json, tar, session, race>>

\* delete: DELETE .../depositions/{version_id}
Delete(token) ==
    /\ pc = "idle"
    /\ prev' = NoUpload
    /\ IF ~token
       THEN /\ call' = Ended("delete", token, <<>>,
                             "MissingZenodoAccessToken")
            /\ UNCHANGED <<versions, faults>>
       ELSE \E out \in {"ok", "error"}, act \in {"ok", "error"} :
            LET version_id == Unsubmitted(out)
            IN  IF version_id = 0
                THEN /\ act = "ok"
                     /\ Env(Cost(out))
                     /\ call' = Ended("delete", token,
                                      <<Ev("list", 0, out)>>,
                                      "ZenodoRecordNotFound")
                     /\ UNCHANGED versions
                ELSE /\ Env(Cost(out) + Cost(act))
                     /\ call' = Ended("delete", token,
                                      <<Ev("list", 0, out),
                                        Ev("delete", version_id, act)>>,
                                      IF act = "ok" THEN "return"
                                      ELSE "ZenodoError")
                     /\ versions' =
                          IF act = "ok"
                          THEN RemoveVersion(versions, version_id)
                          ELSE versions
    /\ UNCHANGED <<pc, json, tar, session, race>>

\* A text that is not JSON.
Corrupt == <<"{">>

\* The notes field of the draft is edited outside showyourwork (the service
\* lets the owner edit the metadata of a draft) and is no longer JSON.
CorruptNotes ==
    /\ pc = "idle"
    /\ DraftId(versions) # 0
    /\ versions[DraftId(versions)].notes # Corrupt
    /\ Env(1)
    /\ prev' = NoUpload
    /\ call' = Ended("edit_notes", FALSE, <<>>, "return")
    /\ versions' = [versions EXCEPT ![DraftId(versions)].notes = Corrupt]
    /\ UNCHANGED <<pc, json, tar, session, race>>

(***************************************************************************)
(* Two processes in upload_file                                            *)
(* Each process has listed the deposit and resolved the same draft; from   *)
(* there each sends the requests of upload_file and upload_file_to_draft   *)
(* in the order of the code, and the service takes the requests of the two *)
(* one at a time in any interleaving.  race.draft is the draft on the      *)
(* service; race.proc[p].notes is the notes field of the draft as process  *)
(* p read it, race.proc[p].entry the file entry it listed.                 *)
(* race.last_transfer and race.last_metadata name the process whose        *)
(* transfer, and whose metadata write, the service took last.              *)
(***************************************************************************)

Procs == {1, 2}

\* The rule the two processes upload for, and the artifact of each.
RaceRule == <<"r">>
RaceFile(p) == IF p = 1 THEN <<"x">> ELSE <<"y">>

NoEntry == [filename |-> <<>>, content |-> <<>>]

RaceIdle ==
    [draft |-> [notes |-> None, files |-> <<>>],
     proc |-> [p \in Procs |->
                 [pc |-> "off", notes |-> None, entry |-> NoEntry,
                  result |-> "running"]],
     last_transfer |-> 0,
     last_metadata |-> 0]

\* The drafts the race starts from: a fresh one, and one that holds the
\* rule's file of an earlier artifact with its ledger entry.
RaceDrafts ==
    {[notes |-> <<"{", "}">>, files |-> <<>>]} \cup
    {[notes |-> Dumps(<<<<RaceRule, h>>>>),
      files |-> <<[filename |-> RaceRule, content |-> h]>>] :
        h \in {<<"x">>, <<"z">>}}

RaceStep(p, pcnext, notes, entry, result) ==
    [race.proc EXCEPT ![p] = [pc |-> pcnext, notes |-> notes,
                              entry |-> entry, result |-> result]]

\* upload_file: parse_request(requests.get(draft_url)), and the start of
\* upload_file_to_draft: the ledger of the draft as read, and what it says
\* about the rule.
RaceGetDraft(p) ==
    /\ race.proc[p].pc = "get_draft"
    /\ LET notes == race.draft.notes
           loaded == Loads(MetadataNotes([notes |-> notes]))
           rule_hash_on_zenodo == DictGet(loaded.val, RaceRule)
       IN  race' = [race EXCEPT !.proc =
                IF AfterNotes(loaded.ok) # "running"
                THEN RaceStep(p, "done", notes, NoEntry,
                              AfterNotes(loaded.ok))
                ELSE IF UpToDate(rule_hash_on_zenodo, RaceFile(p))
                THEN RaceStep(p, "done", notes, NoEntry, "return")
                ELSE IF Truthy(rule_hash_on_zenodo)
                THEN RaceStep(p, "files", notes, NoEntry, "running")
                ELSE RaceStep(p, "transfer", notes, NoEntry, "running")]
    /\ UNCHANGED <<versions, pc, call, prev, faults, json, tar, session>>

\* upload_file_to_draft: parse_request(requests.get(files_url)) and the loop
\* that looks for the entry of the rule.
RaceFiles(p) ==
    /\ race.proc[p].pc = "files"
    /\ LET data == race.draft.files
           me == race.proc[p]
       IN  race' = [race EXCEPT !.proc =
                IF RaceRule \in FileNames(data)
                THEN RaceStep(p, "delete", me.notes,
                              CHOOSE e \in {data[i] : i \in 1..Len(data)} :
                                  e.filename = RaceRule,
                              "running")
                ELSE RaceStep(p, "transfer", me.notes, NoEntry, "running")]
    /\ UNCHANGED <<versions, pc, call, prev, faults, json, tar, session>>

\* upload_file_to_draft: parse_request(requests.delete(files_url/file_id)).
\* The service has no file of that id any more when the other process
\* deleted or replaced it: parse_request then raises ZenodoError.
RaceDelete(p) ==
    /\ race.proc[p].pc = "delete"
    /\ LET me == race.proc[p]
           there == \E i \in 1..Len(race.draft.files) :
                       race.draft.files[i] = me.entry
       IN  race' = [race EXCEPT
                      !.draft.files = IF there THEN RemoveFile(@, RaceRule)
                                      ELSE @,
                      !.proc = IF there
                               THEN RaceStep(p, "transfer", me.notes,
                                             me.entry, "running")
                               ELSE RaceStep(p, "done", me.notes, me.entry,
                                             "ZenodoError")]
    /\ UNCHANGED <<versions, pc, call, prev, faults, json, tar, session>>

\* upload_file_to_draft: curl --upload-file ... PUT {bucket_url}/{rule_name}
RaceTransfer(p) ==
    /\ race.proc[p].pc = "transfer"
    /\ LET me == race.proc[p]
       IN  race' = [race EXCEPT
                      !.draft.files = PutFile(@, RaceRule, RaceFile(p)),
                      !.last_transfer = p,
                      !.proc = RaceStep(p, "metadata", me.notes, me.entry,
                                        "running")]
    /\ UNCHANGED <<versions, pc, call, prev, faults, json, tar, session>>

\* upload_file_to_draft: rule_hashes[rule_name] = file.name on the ledger
\* the process read at the start, and the PUT of the metadata.
RaceMetadata(p) ==
    /\ race.proc[p].pc = "metadata"
    /\ LET me == race.proc[p]
           rule_hashes == DictSet(Loads(MetadataNotes(me)).val,
                                  RaceRule, RaceFile(p))
       IN  race' = [race EXCEPT
                      !.draft.notes = Dumps(rule_hashes),
                      !.last_metadata = p,
                      !.proc = RaceStep(p, "done", me.notes, me.entry,
                                        "return")]
    /\ UNCHANGED <<versions, pc, call, prev, faults, json, tar, session>>

(***************************************************************************)
(* The specifications                                                      *)
(***************************************************************************)

ClientIdle ==
    /\ versions = <<>>
    /\ pc = "idle"
    /\ call = CallIdle
    /\ prev = NoUpload
    /\ faults = 0

Init ==
    /\ ClientIdle
    /\ json = JsonIdle
    /\ tar = TarIdle
    /\ session = SessionIdle
    /\ race = RaceIdle

Next ==
    \/ \E token \in BOOLEAN : Create(token)
    \/ \E token \in BOOLEAN : Publish(token)
    \/ \E token \in BOOLEAN : Delete(token)
    \/ CorruptNotes
    \/ \E rule_name \in Rules, file \in Hashes, token \in BOOLEAN :
          UploadBegin(rule_name, file, token)
    \/ UploadList
    \/ UploadNewVersion
    \/ UploadGetDraft
    \/ UploadDelete
    \/ UploadTransfer
    \/ UploadMetadata
    \/ \E rule_name \in Rules, file \in Hashes, token \in BOOLEAN :
          DownloadBegin(rule_name, file, token)
    \/ DownloadList
    \/ DownloadGetDraft
    \/ download_file_from_draft
    \/ DownloadProbe
    \/ DownloadSearch
    \/ download_file_from_record

Spec == Init /\ [][Next]_vars

\* The operations that write to the deposit, copy_draft among them.
\* The rules that the calls with dry_run look for.
DryRules == {<<"r">>}

\* Deposits and uploads by the owner, and download_file calls with and
\* without dry_run, with and without a token.
NextDry ==
    \/ Create(TRUE)
    \/ Publish(TRUE)
    \/ \E rule_name \in Rules, file \in Hashes :
          UploadBegin(rule_name, file, TRUE)
    \/ UploadList
    \/ UploadNewVersion
    \/ UploadGetDraft
    \/ UploadDelete
    \/ UploadTransfer
    \/ UploadMetadata
    \/ \E rule_name \in DryRules, file \in Hashes, token \in BOOLEAN,
          tarball \in BOOLEAN, dry_run \in BOOLEAN :
          DownloadBeginDry(rule_name, file, token, tarball, dry_run)
    \/ DownloadList
    \/ DownloadGetDraft
    \/ download_file_from_draft
    \/ DownloadProbe
    \/ DownloadSearch
    \/ download_file_from_record

SpecDry == Init /\ [][NextDry]_vars

NextDeposit ==
    \/ \E token \in BOOLEAN : Create(token)
    \/ \E token \in BOOLEAN : Publish(token)
    \/ \E token \in BOOLEAN : Delete(token)
    \/ \E rule_name \in Rules, file \in Hashes, token \in BOOLEAN :
          UploadBegin(rule_name, file, token)
    \/ UploadList
    \/ UploadNewVersion
    \/ UploadGetDraft
    \/ UploadDelete
    \/ UploadTransfer
    \/ UploadMetadata
    \/ \E token \in BOOLEAN : CopyBegin("copy_from", token, NoCache)
    \/ \E token \in BOOLEAN, source \in SourceDrafts :
          CopyBegin("copy_into", token, source)
    \/ CopyList
    \/ CopyNewVersion
    \/ CopyGetDraft
    \/ CopyFiles
    \/ CopyDownload
    \/ CopyMetadata
    \/ CopyUpload

SpecDeposit == Init /\ [][NextDeposit]_vars

InitLedger ==
    /\ ClientIdle
    /\ tar = TarIdle
    /\ session = SessionIdle
    /\ race = RaceIdle
    /\ \E d \in Ledgers : json = [JsonIdle EXCEPT !.pc = "dump",
                                                  !.rule_hashes = d]

NextLedger == WriteNotes \/ ReadNotes

SpecLedger == InitLedger /\ [][NextLedger]_vars

InitTar ==
    /\ ClientIdle
    /\ json = JsonIdle
    /\ session = SessionIdle
    /\ race = RaceIdle
    /\ \E path \in Roots, members \in Archives :
          tar = [TarIdle EXCEPT !.pc = "check", !.path = path,
                                !.members = members]

NextTar == SafeExtractCheck \/ ExtractMember

SpecTar == InitTar /\ [][NextTar]_vars

InitRace ==
    /\ ClientIdle
    /\ json = JsonIdle
    /\ tar = TarIdle
    /\ session = SessionIdle
    /\ \E draft \in RaceDrafts :
          race = [RaceIdle EXCEPT
                    !.draft = draft,
                    !.proc = [p \in Procs |->
                                [RaceIdle.proc[p] EXCEPT !.pc = "get_draft"]]]

NextRace ==
    \E p \in Procs :
        \/ RaceGetDraft(p)
        \/ RaceFiles(p)
        \/ RaceDelete(p)
        \/ RaceTransfer(p)
        \/ RaceMetadata(p)

SpecRace == InitRace /\ [][NextRace]_vars

NextSession ==
    \/ \E token \in BOOLEAN, reply \in OwnerReplies : CheckOwner(token, reply)
    \/ \E token \in BOOLEAN, reply \in OwnerReplies : ZenodoInit(token, reply)
    \/ ClearFlags
    \/ \E reply \in IdReplies : get_id_type(reply)

SpecSession == Init /\ [][NextSession]_vars

TypeOK ==
    /\ pc \in {"idle", "dl_list", "dl_draft", "dl_from_draft", "dl_probe",
               "dl_search", "dl_records", "up_list", "up_newversion",
               "up_getdraft", "up_delete", "up_transfer", "up_metadata",
               "cp_list", "cp_newversion", "cp_getdraft", "cp_files",
               "cp_download", "cp_metadata", "cp_upload"}
    /\ Len(versions) <= MaxVersions
    /\ Cardinality({i \in 1..Len(versions) : ~versions[i].submitted}) <= 1

(***************************************************************************)
(* Properties                                                              *)
(***************************************************************************)

\* The call c made a request of this kind.
Has(c, req) == \E i \in 1..Len(c.trace) : c.trace[i].req = req

\* The call c made a request of this kind that ended this way.
HasOut(c, req, out) ==
    \E i \in 1..Len(c.trace) : c.trace[i].req = req /\ c.trace[i].out = out

\* Every request and transfer of the call c was answered without failure,
\* and every notes field it read was JSON.
Answered(c) ==
    \A i \in 1..Len(c.trace) :
        Cost(c.trace[i].out) = 0 /\ c.trace[i].out # "invalid"

\* The last call was of this kind and has ended.
Finished(op) == pc = "idle" /\ call.op = op

\* The ledger in the notes of a version or of a fetched draft.
LedgerOf(v) == Loads(MetadataNotes(v)).val

\* The version holds a file named rule_name and its ledger entry for the
\* rule is the identifier file.
Matches(v, rule_name, file) ==
    /\ rule_name \in FileNames(v.files)
    /\ DictGet(LedgerOf(v), rule_name) = file

Position(files, name) ==
    CHOOSE i \in 1..Len(files) : files[i].filename = name

ContentOf(v, name) == v.files[Position(v.files, name)].content

PublishedMatching(rule_name, file) ==
    {i \in 1..Len(versions) :
        versions[i].submitted /\ Matches(versions[i], rule_name, file)}

Newest(S) == CHOOSE m \in S : \A n \in S : n <= m

\* The download has fetched the draft and the listing of its files.
DraftRead(c) == c.op = "download" /\ HasOut(c, "files", "ok")

DraftRelated == {"list", "get_draft", "files", "transfer_draft"}
RecordRelated == {"probe", "search", "record", "transfer_record"}

\* C1: after upload_file for rule R and an artifact has returned normally,
\* a download_file for R that expects the artifact's identifier, and whose
\* requests and transfer meet no failure, returns normally (Found) and
\* the content written locally is that of the artifact.
C1_UploadThenDownloadFound ==
    ( /\ Finished("download")
      /\ prev # NoUpload
      /\ call.rule_name = prev.rule_name
      /\ call.file = prev.file
      /\ Answered(call) )
    => (call.result = "return" /\ call.written = call.file)

\* C2: when no version of the concept, draft or published, holds a file
\* named R, a download_file for R whose queries are all answered without
\* error ends with FileNotFoundOnZenodo, whatever identifier it expects,
\* and transfers nothing.
C2_NeverUploadedIsCacheMiss ==
    ( /\ Finished("download")
      /\ Answered(call)
      /\ \A i \in 1..Len(versions) :
            call.rule_name \notin FileNames(versions[i].files) )
    => /\ call.result = "FileNotFoundOnZenodo"
       /\ call.written = None
       /\ ~Has(call, "transfer_draft")
       /\ ~Has(call, "transfer_record")

C2_Witness ==
    /\ Finished("download")
    /\ Answered(call)
    /\ \A i \in 1..Len(versions) :
          call.rule_name \notin FileNames(versions[i].files)
    /\ DraftRead(call)
    /\ Has(call, "record")
    /\ call.result = "FileNotFoundOnZenodo"

\* The draft read by the download holds a file named R, and the draft's
\* ledger entry for R is not the identifier the call expects.
StaleInDraft(c) ==
    /\ DraftRead(c)
    /\ c.rule_name \in FileNames(versions[c.draft.id].files)
    /\ DictGet(LedgerOf(c.draft), c.rule_name) # c.file

\* C3: when the draft holds a file named R and the draft's ledger entry for
\* R differs from the expected identifier, download_file transfers nothing
\* from the draft, looks at no file of the draft after the one named R, and
\* goes on to the published records: it probes for them, and when no
\* request fails it returns normally with the content of a published
\* version that matches, or ends with FileNotFoundOnZenodo when none does.
C3_StaleDraftIsSkipped ==
    StaleInDraft(call) =>
        /\ ~Has(call, "transfer_draft")
        /\ call.scanned =
             Position(versions[call.draft.id].files, call.rule_name)
        /\ pc # "dl_probe" => Has(call, "probe")
        /\ (pc = "idle" /\ Answered(call)) =>
             LET found == PublishedMatching(call.rule_name, call.file)
             IN  IF found # {}
                 THEN /\ call.result = "return"
                      /\ Has(call, "transfer_record")
                      /\ call.written =
                           ContentOf(versions[Newest(found)], call.rule_name)
                 ELSE call.result = "FileNotFoundOnZenodo"

C3_Witness ==
    /\ pc = "idle"
    /\ StaleInDraft(call)
    /\ call.scanned < Len(versions[call.draft.id].files)
    /\ call.result = "return"
    /\ HasOut(call, "transfer_record", "ok")

\* The records a download has inspected, in the order of inspection.
Inspected(c) == SelectSeq(c.trace, LAMBDA e : e.req = "record")

\* C4: download_file inspects the published versions from the newest to
\* the oldest, one after the other; a version is a match exactly when it
\* holds a file named R with the expected ledger entry; no version is
\* inspected after a match, and the transfer is from the newest published
\* version that matches.
C4_NewestRecordFirst ==
    call.op = "download" =>
        LET recs == Inspected(call)
            hits == RecordHits(versions)
        IN  /\ Len(recs) <= Len(hits)
            /\ \A i \in 1..Len(recs) :
                 /\ recs[i].id = hits[Len(hits) + 1 - i]
                 /\ recs[i].out = "match" <=>
                      Matches(versions[recs[i].id], call.rule_name, call.file)
                 /\ recs[i].out = "match" => i = Len(recs)
            /\ \A k \in 1..Len(call.trace) :
                 call.trace[k].req = "transfer_record" =>
                    call.trace[k].id =
                       Newest(PublishedMatching(call.rule_name, call.file))

C4_Witness ==
    /\ Finished("download")
    /\ PublishedMatching(call.rule_name, call.file) = {1, 2}
    /\ Len(Inspected(call)) = 1
    /\ \E k \in 1..Len(call.trace) :
          call.trace[k] = Ev("transfer_record", 2, "ok")
    /\ call.result = "return"

\* The draft read by the download holds a file named R and the draft's
\* ledger entry for R is the expected identifier.
DraftMatches(c) ==
    /\ DraftRead(c)
    /\ c.rule_name \in FileNames(versions[c.draft.id].files)
    /\ DictGet(LedgerOf(c.draft), c.rule_name) = c.file

\* C5: in a download_file call every request about the draft comes before
\* every request about a published record; and when the draft matches, the
\* call transfers the draft's file and ends there, with no request about a
\* published record: it returns normally with the content of the draft's
\* file when the transfer succeeds.
C5_DraftBeforeRecords ==
    call.op = "download" =>
        /\ \A i, j \in 1..Len(call.trace) :
             (i < j /\ call.trace[i].req \in RecordRelated)
                => call.trace[j].req \notin DraftRelated
        /\ DraftMatches(call) =>
             /\ Has(call, "transfer_draft")
             /\ pc = "idle"
             /\ \A k \in 1..Len(call.trace) :
                    call.trace[k].req \notin RecordRelated
             /\ HasOut(call, "transfer_draft", "ok") =>
                  /\ call.result = "return"
                  /\ call.written =
                       ContentOf(versions[call.draft.id], call.rule_name)

C5_Witness ==
    /\ Finished("download")
    /\ DraftMatches(call)
    /\ HasOut(call, "transfer_draft", "ok")
    /\ PublishedMatching(call.rule_name, call.file) # {}
    /\ call.result = "return"

C7_FailedUploadTransferRaises ==
    ( /\ Finished("upload")
      /\ \/ HasOut(call, "transfer_upload", "nonzero")
         \/ HasOut(call, "transfer_upload", "raise") )
    => /\ call.result = "ZenodoUploadError"
       /\ ~Has(call, "put_metadata")
       /\ DictGet(LedgerOf(versions[call.draft.id]), call.rule_name)
             # call.file

\* C8: when download_file has found a matching file, in the draft or in a
\* published record, and the transfer of it fails, the call ends with
\* FileNotFoundOnZenodo: it neither returns normally nor raises another
\* error.
C8_FailedDownloadTransferIsCacheMiss ==
    ( /\ Finished("download")
      /\ \E i \in 1..Len(call.trace) :
            /\ call.trace[i].req \in {"transfer_draft", "transfer_record"}
            /\ call.trace[i].out # "ok" )
    => call.result = "FileNotFoundOnZenodo"

\* C9: the extraction goes on to write members only when the destination
\* of every member is the extraction root or below it component by
\* component, and every path written is the root or below it.
C9_ExtractionStaysInRoot ==
    /\ tar.pc \in {"extract", "done"} =>
          \A i \in 1..Len(tar.members) :
             IsBelow(tar.path, PathJoin(tar.path, tar.members[i]))
    /\ \A w \in tar.written : IsBelow(tar.path, w)

\* C10: a ledger that is serialised into the notes field by json.dumps with
\* indent=4 and parsed back by json.loads gives a mapping equal to the
\* ledger.
C10_LedgerRoundTrip ==
    json.pc = "done" =>
        /\ json.loaded.ok
        /\ DictEq(json.loaded.val, json.rule_hashes)

C10_Witness ==
    /\ json.pc = "done"
    /\ Len(json.rule_hashes) = 2
    /\ json.rule_hashes[1][1] = <<"\\", "n">>
    /\ json.rule_hashes[2][2] = <<"\\", "\"">>
    /\ json.loaded.ok

\* The last call on the session went through check_if_user_is_owner.
OwnerChecked == session.op \in {"check_if_user_is_owner", "__init__"}

\* What the last call took the ownership to be.
OwnerAnswer ==
    IF session.op = "__init__"
    THEN (IF session.user_is_owner THEN "True" ELSE "False")
    ELSE session.result

\* C12: a check_if_user_is_owner call that starts with the AUTH_VALID flag
\* of the id set returns true without a request, and one that starts with
\* the AUTH_INVALID flag set returns false without a request.
C12_OwnershipMemoized ==
    OwnerChecked =>
        /\ "AUTH_VALID" \in session.start_flags =>
              (OwnerAnswer = "True" /\ session.requests = 0)
        /\ "AUTH_INVALID" \in session.start_flags =>
              (OwnerAnswer = "False" /\ session.requests = 0)

C12_Witness ==
    /\ session.op = "check_if_user_is_owner"
    /\ session.start_flags = {"AUTH_VALID"}
    /\ session.result = "True"
    /\ session.requests = 0
    /\ session.calls >= 2

\* C13: in one session, whatever the calls of check_if_user_is_owner, the
\* instances that make them and the replies, at most one of AUTH_VALID
\* and AUTH_INVALID is set for the id.
C13_AtMostOneFlag == Cardinality(session.flags) <= 1

C13_Witness ==
    /\ session.op = "__init__"
    /\ session.token
    /\ session.start_flags = {"AUTH_INVALID"}
    /\ session.flags = {"AUTH_INVALID"}
    /\ session.calls >= 2

\* C14: when Zenodo(doi) is constructed with no flag set and the probe
\* does not find the deposit among the user's (no token, an error status,
\* an empty result, an undecodable body, or the request failing), the
\* AUTH_INVALID flag is set afterwards, user_is_owner is false and no
\* exception leaves the constructor.
C14_FailedProbeSetsInvalid ==
    ( /\ session.op = "__init__"
      /\ session.start_flags = {}
      /\ ~(session.token /\ session.reply = "owned") )
    => /\ "AUTH_INVALID" \in session.flags
       /\ ~session.user_is_owner
       /\ session.result = "constructed"

\* C15: get_id_type leaves a cache file only with "concept" or "version":
\* a call that returns "unknown" leaves no cache file, and a call that
\* starts with "concept" or "version" cached returns it without a request.
C15_OnlyDefiniteIdTypeCached ==
    /\ session.id_type \in {"absent", "concept", "version"}
    /\ session.op = "get_id_type" =>
          /\ session.result = "unknown" => session.id_type = "absent"
          /\ session.start_id_type \in {"concept", "version"} =>
                /\ session.result = session.start_id_type
                /\ session.requests = 0

\* The call has fetched a draft whose notes field is not JSON.
CorruptDraftFetched(c) ==
    /\ HasOut(c, "get_draft", "ok")
    /\ c.draft.notes = Corrupt

\* C11: with a notes field that is not JSON, upload_file_to_draft,
\* download_file_from_draft and download_file_from_record end with
\* InvalidZenodoNotesField; the upload makes no file listing, delete,
\* transfer or metadata write and leaves the notes of the draft as they
\* were; a download neither lists, matches nor transfers files of that
\* draft or record.
C11_CorruptNotesRejected ==
    /\ (call.op = "upload" /\ CorruptDraftFetched(call)) =>
          /\ pc \in {"up_delete", "idle"}
          /\ pc = "idle" => call.result = "InvalidZenodoNotesField"
          /\ \A i \in 1..Len(call.trace) :
                call.trace[i].req \notin
                   {"files", "delete_file", "transfer_upload", "put_metadata"}
          /\ versions[call.draft.id].notes = Corrupt
    /\ (call.op = "download" /\ CorruptDraftFetched(call)) =>
          /\ pc \in {"dl_from_draft", "idle"}
          /\ pc = "idle" => call.result = "InvalidZenodoNotesField"
          /\ \A i \in 1..Len(call.trace) :
                call.trace[i].req \notin
                   {"files", "transfer_draft"} \cup RecordRelated
    /\ call.op = "download" =>
          /\ \A i \in 1..Len(call.trace) :
                call.trace[i].req \in {"record", "transfer_record"} =>
                   versions[call.trace[i].id].notes # Corrupt
          /\ ( /\ call.records # <<>>
               /\ versions[Head(call.records)].notes = Corrupt )
             => /\ pc \in {"dl_records", "idle"}
                /\ pc = "idle" =>
                      call.result = "InvalidZenodoNotesField"

C11_Witness ==
    /\ Finished("download")
    /\ call.result = "InvalidZenodoNotesField"
    /\ call.records # <<>>
    /\ versions[Head(call.records)].notes = Corrupt
    /\ HasOut(call, "search", "ok")
    /\ HasOut(call, "notes", "invalid")

\* The versions of the concept that are not published.
Drafts == {i \in 1..Len(versions) : ~versions[i].submitted}

\* The draft resolution of the call c (an upload_file or a copy_draft) has
\* succeeded: the draft it chose has been fetched.
Resolved(c) ==
    /\ c.op \in {"upload", "copy_from", "copy_into"}
    /\ HasOut(c, "get_draft", "ok")

\* C16: in every state that create, upload_file, publish, delete and
\* copy_draft of one process reach, the concept has at most one version
\* that is not published; once the draft resolution of an upload_file or of
\* a copy_draft has succeeded exactly one is open, the one the call
\* resolved; and the call asked for a new version only when the most recent
\* version was published and no draft was linked.
C16_AtMostOneDraft ==
    /\ Cardinality(Drafts) <= 1
    /\ Resolved(call) =>
         /\ Cardinality(Drafts) = 1
         /\ call.draft.id \in Drafts
         /\ Has(call, "newversion") =>
              /\ call.data_id \in 1..Len(versions)
              /\ versions[call.data_id].submitted
              /\ call.data_id = call.draft.id - 1

C16_Witness ==
    /\ Finished("upload")
    /\ call.result = "return"
    /\ HasOut(call, "newversion", "ok")
    /\ Resolved(call)
    /\ Len(versions) = 2
    /\ Drafts = {2}

\* The operations that write to the deposit.
Mutating == {"create", "upload", "publish", "delete", "copy_from", "copy_into"}

\* C17: a mutating operation (creating a deposit, upload_file, publish,
\* delete, copy_draft) of an object without an access token ends with the
\* missing-credential error before it has sent any request.
C17_NoTokenNoRequest ==
    (pc = "idle" /\ call.op \in Mutating /\ ~call.access_token) =>
        /\ call.result = "MissingZenodoAccessToken"
        /\ call.trace = <<>>

\* The published versions, oldest first.
Published(vs) == SelectSeq(vs, LAMBDA v : v.submitted)

\* The step is a whole publish or delete call of an object with a token.
LifeStep(op) ==
    /\ pc = "idle"
    /\ pc' = "idle"
    /\ call'.op = op
    /\ call'.access_token

\* What a publish or delete call did to the versions, given the draft d that
\* was open before it (0: none).
LifeEffect(op, d) ==
    IF d = 0 \/ ~HasOut(call', "list", "ok")
    THEN /\ call'.result = "ZenodoRecordNotFound"
         /\ ~Has(call', op)
         /\ versions' = versions
    ELSE /\ \A i \in 1..Len(call'.trace) :
              call'.trace[i].req = op => call'.trace[i].id = d
         /\ Has(call', op)
         /\ IF op = "publish"
            THEN \A i \in 1..Len(versions) :
                     versions[i].submitted =>
                         i <= Len(versions') /\ versions'[i] = versions[i]
            ELSE Published(versions') = Published(versions)
         /\ IF ~HasOut(call', op, "ok")
            THEN call'.result = "ZenodoError" /\ versions' = versions
            ELSE /\ call'.result = "return"
                 /\ Len(versions') = IF op = "publish" THEN Len(versions)
                                     ELSE Len(versions) - 1
                 /\ \A i \in 1..Len(versions') :
                      versions'[i] =
                          IF i < d THEN versions[i]
                          ELSE IF op = "publish" /\ i = d
                          THEN [versions[d] EXCEPT !.submitted = TRUE]
                          ELSE IF op = "publish" THEN versions[i]
                          ELSE versions[i + 1]

\* C18: publish and delete act on an unsubmitted version only.  When the
\* listing has none, or cannot be read, the call ends with
\* ZenodoRecordNotFound and the action is not sent; otherwise publish
\* submits exactly that version and delete removes exactly that version,
\* and no published version is touched.
C18_PublishDeleteDraftOnly ==
    [][/\ LifeStep("publish") => LifeEffect("publish", DraftId(versions))
       /\ LifeStep("delete") => LifeEffect("delete", DraftId(versions))]_vars

C18_Witness ==
    /\ Finished("delete")
    /\ call.result = "return"
    /\ HasOut(call, "delete", "ok")
    /\ Len(versions) = 1
    /\ Len(Published(versions)) = 1

\* C19: a published version is immutable: no step of upload_file, delete,
\* copy_draft (or of any other operation) changes a version that is
\* submitted; an upload_file that lists a deposit whose versions are all
\* published goes on to the newversion action, which opens a draft that is
\* a copy of the most recent version, and the upload writes to that draft.
C19_PublishedImmutable ==
    [][/\ \A i \in 1..Len(versions) :
             versions[i].submitted =>
                 i <= Len(versions') /\ versions'[i] = versions[i]
       /\ (pc = "up_list" /\ pc' # "idle" /\ Drafts = {}) =>
             pc' = "up_newversion"
       /\ (pc = "up_newversion" /\ pc' # "idle") =>
             /\ versions' = Append(versions,
                    [versions[Len(versions)] EXCEPT !.submitted = FALSE])
             /\ call'.draft_url = Len(versions')
       /\ (pc \in {"up_getdraft", "up_delete", "up_transfer", "up_metadata"}
              /\ versions' # versions) =>
             /\ Len(versions') = Len(versions)
             /\ \A i \in 1..Len(versions) :
                   versions'[i] # versions[i] =>
                       i = call.draft_url /\ ~versions[i].submitted]_vars

C19_Witness ==
    /\ Finished("upload")
    /\ call.result = "return"
    /\ HasOut(call, "newversion", "ok")
    /\ HasOut(call, "transfer_upload", "ok")
    /\ Len(versions) = 2
    /\ versions[1].submitted
    /\ versions[2].files # versions[1].files
    /\ versions[2].notes # versions[1].notes

\* Every file of the sequence src is in dst under its name with its content.
HoldsFiles(dst, src) ==
    \A i \in 1..Len(src) : \E j \in 1..Len(dst) : dst[j] = src[i]

\* C20: after copy_draft has returned normally, the target's draft has the
\* description and the ledger of the source's draft and holds every file of
\* the source's draft under its name with its content, and the source
\* deposit is as it was.  With the deposit as target the source's draft is
\* what the cache folder was given; with the deposit as source the target
\* receives what the cache folder holds.
C20_CopyDraftCopies ==
    /\ (Finished("copy_into") /\ call.result = "return") =>
          LET target == versions[call.draft.id]
              source == call.cache_folder
          IN  /\ target.description = source.description
              /\ LedgerOf(target) = LedgerOf(source)
              /\ HoldsFiles(target.files, source.files)
    /\ (Finished("copy_from") /\ call.result = "return") =>
          /\ call.cache_folder.description
                 = versions[call.draft.id].description
          /\ LedgerOf(call.cache_folder) = LedgerOf(versions[call.draft.id])
          /\ HoldsFiles(call.cache_folder.files,
                        versions[call.draft.id].files)
          /\ ~HasOut(call, "newversion", "ok")

\* C21: when upload_file cannot list the concept's depositions (a failure
\* status, or an empty listing) it returns normally after its warning: it
\* raises nothing, sends no further request and changes no version.
C21_ListFailureOnlyWarns ==
    [][(pc = "up_list" /\ ~HasOut(call', "list", "ok")) =>
          /\ pc' = "idle"
          /\ call'.result = "warned"
          /\ Len(call'.trace) = 1
          /\ versions' = versions]_vars

C21_Witness ==
    /\ Finished("upload")
    /\ HasOut(call, "list", "error")
    /\ call.result = "warned"
    /\ versions # <<>>

\* The place of the first request of this kind in the trace of c, 0 when
\* there is none.
EvPos(c, req) ==
    IF Has(c, req)
    THEN CHOOSE i \in 1..Len(c.trace) :
            /\ c.trace[i].req = req
            /\ \A j \in 1..(i - 1) : c.trace[j].req # req
    ELSE 0

\* The draft the upload c fetched has a ledger entry for the rule that
\* differs from the artifact's identifier.
Replaces(c) ==
    /\ c.op = "upload"
    /\ c.draft.id # 0
    /\ Truthy(DictGet(LedgerOf(c.draft), c.rule_name))
    /\ DictGet(LedgerOf(c.draft), c.rule_name) # c.file

\* C22: when the draft's ledger has an entry for R that differs from the new
\* identifier, the remote steps of the upload come in the order delete the
\* file named R, transfer the new file, write the metadata; and after the
\* upload has returned the draft holds exactly one file named R and the
\* ledger entry for R is the new identifier.
C22_DeleteTransferMetadata ==
    (Finished("upload") /\ call.result = "return" /\ Replaces(call)) =>
        LET v == versions[call.draft.id]
        IN  /\ Has(call, "transfer_upload")
            /\ Has(call, "put_metadata")
            /\ Has(call, "delete_file") =>
                  EvPos(call, "delete_file") < EvPos(call, "transfer_upload")
            /\ EvPos(call, "transfer_upload") < EvPos(call, "put_metadata")
            /\ Cardinality({i \in 1..Len(v.files) :
                               v.files[i].filename = call.rule_name}) = 1
            /\ DictGet(LedgerOf(v), call.rule_name) = call.file

\* C23: the draft resolution of upload_file goes by the first listed
\* version: its latest_draft link when it has one; else its own link when
\* it is unsubmitted; else the newversion action on it, and then the draft
\* that action opened.  The newversion action is sent only for a first
\* listed version that is submitted and has no latest_draft link.
C23_DraftResolutionPriority ==
    (call.op = "upload" /\ HasOut(call, "list", "ok")
                       /\ Len(call.trace) >= 2) =>
        LET data == call.listed
            next == call.trace[2]
        IN  /\ data.latest_draft # 0 =>
                  next.req = "get_draft" /\ next.id = data.latest_draft
            /\ (data.latest_draft = 0 /\ ~data.submitted) =>
                  next.req = "get_draft" /\ next.id = data.id
            /\ (data.latest_draft = 0 /\ data.submitted) =>
                  /\ next.req = "newversion" /\ next.id = data.id
                  /\ Len(call.trace) >= 3 =>
                        /\ call.trace[3].req = "get_draft"
                        /\ call.trace[3].id = data.id + 1
                        /\ call.trace[3].id \in Drafts
            /\ Has(call, "newversion") =>
                  data.submitted /\ data.latest_draft = 0

C23_Witness ==
    /\ Finished("upload")
    /\ call.result = "return"
    /\ call.listed.latest_draft = 0
    /\ ~call.listed.submitted
    /\ HasOut(call, "get_draft", "ok")
    /\ HasOut(call, "put_metadata", "ok")

\* The download c could not resolve or read the draft: the listing, the GET
\* of the draft or the listing of the draft's files failed.
DraftFailed(c) ==
    /\ c.op = "download"
    /\ \E i \in 1..Len(c.trace) :
          /\ c.trace[i].req \in {"list", "get_draft", "files"}
          /\ c.trace[i].out \in Failures

\* C24: in download_file a failure to resolve or to read the draft, for
\* whatever reason, does not end the call: it goes on to the probe and the
\* search of the published records.
C24_DraftFailureNotFatal ==
    (Finished("download") /\ DraftFailed(call)) => Has(call, "probe")

\* C25: download_file finds the draft as the draft resolution does: when the
\* first listed version is unsubmitted and its listing has no latest_draft
\* link, the call fetches that version by its own link and looks at its
\* files; with every request answered and the artifact in that draft, the
\* call returns with the artifact.
C25_DownloadUsesOwnLink ==
    (/\ Finished("download")
     /\ HasOut(call, "list", "ok")
     /\ ~call.listed.submitted
     /\ call.listed.latest_draft = 0) =>
        /\ \E i \in 1..Len(call.trace) :
              /\ call.trace[i].req = "get_draft"
              /\ call.trace[i].id = call.listed.id
        /\ (Answered(call) /\ Matches(versions[call.listed.id],
                                       call.rule_name, call.file)) =>
              /\ call.result = "return"
              /\ call.written = call.file

\* Both processes have returned normally from upload_file.
BothReturned ==
    \A p \in Procs :
        race.proc[p].pc = "done" /\ race.proc[p].result = "return"

\* The files of the rule in the draft of the race.
RaceStored ==
    {race.draft.files[i] : i \in 1..Len(race.draft.files)}

\* C26: two processes that upload different artifacts for the same rule to
\* the same draft are not coordinated, and the last write wins on each side
\* apart: once both have returned, the file stored under the rule is the
\* artifact of the process whose transfer came last and the ledger entry is
\* the identifier of the process whose metadata write came last.  So there
\* is an interleaving (the witness) after which the ledger names one
\* process's identifier and the file is the other's content.
C26_LastWriteWinsApart ==
    (BothReturned /\ race.last_transfer # 0) =>
        /\ race.last_metadata # 0
        /\ RaceStored = {[filename |-> RaceRule,
                          content |-> RaceFile(race.last_transfer)]}
        /\ DictGet(LedgerOf(race.draft), RaceRule)
              = RaceFile(race.last_metadata)

C26_Witness ==
    /\ BothReturned
    /\ \A p \in Procs : race.proc[p].entry # NoEntry
    /\ DictGet(LedgerOf(race.draft), RaceRule) = RaceFile(1)
    /\ RaceStored = {[filename |-> RaceRule, content |-> RaceFile(2)]}

\* C27: the ledger an upload writes back is built from metadata read right
\* before the write: between the read of the draft's metadata and the
\* metadata write of the same upload_file call, the call deletes no file and
\* transfers no file.
C27_ReadRightBeforeWrite ==
    (call.op = "upload" /\ Has(call, "put_metadata")) =>
        \A i \in 1..Len(call.trace) :
            (EvPos(call, "get_draft") < i /\ i < EvPos(call, "put_metadata"))
                => call.trace[i].req \notin {"delete_file", "transfer_upload"}

\* The requests of upload_file_to_draft.
DraftRequests == {"files", "delete_file", "transfer_upload", "put_metadata"}

\* The draft the upload c fetched has the artifact's identifier as the
\* ledger entry of the rule.
EntryUpToDate(c) ==
    /\ c.op = "upload"
    /\ c.draft.id # 0
    /\ Loads(MetadataNotes(c.draft)).ok
    /\ DictGet(LedgerOf(c.draft), c.rule_name) = c.file

\* C28: upload_file_to_draft does nothing when the ledger entry of the rule
\* is already the artifact's identifier: no file listing, no delete, no
\* transfer, no metadata write, whether the draft holds a file of the rule
\* or not.  An upload_file right after a normally returned upload_file of
\* the same artifact for the same rule sends no request that changes the
\* deposit.
C28_UpToDateIsNoOp ==
    /\ (EntryUpToDate(call) /\ pc # "up_delete") =>
          /\ pc = "idle"
          /\ call.result = "return"
          /\ \A i \in 1..Len(call.trace) :
                call.trace[i].req \notin DraftRequests
    /\ (call.op = "upload" /\ prev # NoUpload) =>
          \A i \in 1..Len(call.trace) :
              call.trace[i].req \notin DraftRequests \cup {"newversion"}

C28_Witness ==
    /\ Finished("upload")
    /\ prev # NoUpload
    /\ EntryUpToDate(call)
    /\ call.result = "return"
    /\ call.rule_name \notin FileNames(versions[call.draft.id].files)

\* The ledger entry and the files of rule q in the version v.
RuleState(v, q) ==
    [entry |-> DictGet(LedgerOf(v), q),
     files |-> {v.files[i] : i \in {j \in 1..Len(v.files) :
                                      v.files[j].filename = q}}]

\* C29: an upload for rule R by a single process leaves every other rule as
\* it was: no step of upload_file_to_draft changes a version other than the
\* draft, and in the draft the ledger entry and the file of every rule Q
\* other than R are the same after the step as before it; the draft that a
\* newversion step opens has the entries and files of the version it
\* copies.
C29_OtherRulesUntouched ==
    [][/\ pc \in {"up_delete", "up_transfer", "up_metadata"} =>
             /\ Len(versions') = Len(versions)
             /\ \A i \in 1..Len(versions) :
                   /\ i # call.draft.id => versions'[i] = versions[i]
                   /\ \A q \in Rules \ {call.rule_name} :
                         RuleState(versions'[i], q) = RuleState(versions[i], q)
       /\ (pc = "up_newversion" /\ versions' # versions) =>
             \A q \in Rules :
                 RuleState(versions'[Len(versions')], q)
                     = RuleState(versions[Len(versions)], q)]_vars

C29_Witness ==
    /\ Finished("upload")
    /\ call.result = "return"
    /\ HasOut(call, "delete_file", "ok")
    /\ HasOut(call, "transfer_upload", "ok")
    /\ HasOut(call, "put_metadata", "ok")
    /\ \E q \in Rules \ {call.rule_name} :
          /\ Truthy(RuleState(versions[call.draft.id], q).entry)
          /\ RuleState(versions[call.draft.id], q).files # {}

\* The requests that change the service: a new version, the removal or the
\* upload of a file, a metadata write.
Writes == {"newversion", "delete_file", "transfer_upload", "put_metadata",
           "post_deposition", "publish", "delete", "copy_upload"}

\* C30: download_file is read-only with respect to the service: no step of
\* a download_file call, from its start to its outcome (Found, CacheMiss or
\* error), changes the versions, their files or their ledgers, and the call
\* sends no request that opens a version, deletes or uploads a file or
\* writes metadata.
C30_DownloadReadOnly ==
    [][((pc = "idle" /\ call'.op = "download" /\ pc' # "idle")
        \/ (pc # "idle" /\ call.op = "download")) =>
           /\ versions' = versions
           /\ \A w \in Writes : ~Has(call', w)]_vars

C30_Witness ==
    /\ Finished("download")
    /\ call.result = "return"
    /\ HasOut(call, "transfer_draft", "ok")
    /\ call.written = call.file
    /\ \E i \in 1..Len(versions) : versions[i].submitted

\* A download_file of an object without a token, whose listing of the
\* depositions the service has rejected.
Tokenless(c) ==
    c.op = "download" /\ ~c.access_token /\ HasOut(c, "list", "error")

\* Every request of the call c after its first was answered without
\* failure, and every notes field it read was JSON.
RestAnswered(c) ==
    \A i \in 2..Len(c.trace) :
        Cost(c.trace[i].out) = 0 /\ c.trace[i].out # "invalid"

\* C32: a download_file without an access token, whose listing of the
\* depositions the service rejects, never ends with
\* MissingZenodoAccessToken and sends no request about the draft; it goes
\* on to the published records, returns normally only if some published
\* version holds a file named R whose ledger entry is the expected
\* identifier, and, when its other requests meet no failure, returns
\* normally exactly when there is such a version, with the content of the
\* newest one.
C32_TokenlessHitsPublished ==
    Tokenless(call) =>
        /\ call.result # "MissingZenodoAccessToken"
        /\ \A r \in {"get_draft", "files", "transfer_draft"} : ~Has(call, r)
        /\ pc # "dl_probe" => Has(call, "probe")
        /\ call.result = "return" =>
              PublishedMatching(call.rule_name, call.file) # {}
        /\ (pc = "idle" /\ RestAnswered(call)) =>
              LET found == PublishedMatching(call.rule_name, call.file)
              IN  IF found # {}
                  THEN /\ call.result = "return"
                       /\ call.written =
                            ContentOf(versions[Newest(found)], call.rule_name)
                  ELSE call.result = "FileNotFoundOnZenodo"

C32_Witness ==
    /\ pc = "idle"
    /\ Tokenless(call)
    /\ call.result = "return"
    /\ HasOut(call, "transfer_record", "ok")
    /\ call.written = call.file
    /\ DraftId(versions) # 0

\* The requests in the trace met no failure and every notes field read was
\* JSON; the rejection of the listing of a call without a token is no
\* failure.
Smooth(trace, token) ==
    \A i \in 1..Len(trace) :
        /\ trace[i].out # "invalid"
        /\ \/ Cost(trace[i].out) = 0
           \/ ~token /\ trace[i].req = "list" /\ trace[i].out = "error"

\* The requests of a trace, the transfers left out.
Requests(trace) ==
    SelectSeq(trace, LAMBDA e : e.req \notin {"transfer_draft",
                                               "transfer_record"})

====
